---- MODULE Spec2Model ----
(***************************************************************************)
(* A model of src/src/material_mesh.rs (multimaterial voxelization).       *)
(*                                                                         *)
(* Coordinates are exact integers: one model unit is a quarter of the      *)
(* program's unit length, so 0.5 is Half and 1.0 is One.  Comparisons of   *)
(* normalised dot products and of atan2 angles are made exactly (by signs  *)
(* and cross-multiplication), so no rounding is modelled.                  *)
(***************************************************************************)
EXTENDS Integers, Sequences, FiniteSets, TLC

VARIABLES
    sq_pc,      \* square kernel: "idle" | "ready" | "done"
    sq_in,      \* the boundary graph handed to intersect_center_unit_square_on_graph
    sq_out,     \* the graph after the call
    sq_ret,     \* the call's return value
    sq_branch,  \* which exit of the function was taken
    sq_steps,   \* boundary after the merge, the slits, the strips; the flags, points, index
    soup_pc,    \* manifold_from_triangle_soup: "idle" | "link" | "done"
    soup_tris,  \* the triangle soup handed to it
    soup_src,   \* the mesh the soup was listed from, if any
    soup_order, \* the order in which edge_face_map yields its keys
    soup_pos,   \* positions: the corners of the soup in one list
    soup_keys,  \* the keys left in edge_face_map
    soup_sets,  \* index_sets, the union-find over the corners
    soup_pairs, \* the pairings made so far
    soup_times, \* how often each corner has been paired
    soup_mesh,  \* the mesh built at the end
    soup_built, \* points and indexes as they are handed to MeshBuilder
    cube_pc,        \* intersect_unit_cube: "idle" | "call" | "faces" | "soup" | "done" | "panic"
    cube_in,        \* its arguments: the mesh, cube_min; the key order of the soup's map
    cube_self,      \* self.mesh after the translation to the centred cube
    cube_boundary,  \* boundary
    cube_triangles, \* triangles
    cube_filled,    \* the normals done so far, each with the number of its triangles
    cube_out,       \* the mesh returned
    ctr_pc,     \* axis_contour: "idle" | "call" | "loop" | "done" | "panic"
    ctr_in,     \* its arguments: the mesh, axis, spacing, min_slice, max_slice
    ctr_mesh,   \* self.mesh
    ctr_ranges, \* ranges
    ctr_slice,  \* slice_coord
    ctr_flips,  \* how many times flip_edge has been called in this call
    ctr_run,    \* 1 in the first call, 2 in a call repeated on its result
    ctr_begun,  \* self.mesh as it was when this call began
    ctr_gone,   \* the half-edges of the ranges popped and discarded in this call
    slc_pc,     \* contour_slice: "idle" | "call" | "faces" | "done" | "panic"
    slc_in,     \* its arguments: the mesh, axis, spacing, min_slice, max_slice
    slc_imms,   \* imms
    slc_face,   \* the face the loop is at
    slc_out,    \* the slices returned
    dec_pc,     \* decimate: "idle" | "call" | "loop" | "done"
    dec_in,     \* the mesh it is called on; the order of vertex_halfedge_iter
    dec_mesh,   \* self.mesh
    dec_ids,    \* vertex_ids, the part the loop has not come to yet
    dec_run,    \* 1 in the call of axis_slice, 2 in a call repeated on its result
    dec_first,  \* self.mesh as the first call left it
    dec_log,    \* what the turns of the loop did: [vertex, removed, flips]
    grd_pc,     \* axis_ranges_and_in_out_gradients: "idle" | "call" | "sweep" | "done"
    grd_in,     \* its arguments: the mesh, axis, cross_section_area
    grd_face_ranges, \* face_ranges, the part the loop has not come to yet
    grd_ranges, \* ranges
    grd_out     \* the ranges and gradients returned

squareVars == <<sq_pc, sq_in, sq_out, sq_ret, sq_branch, sq_steps>>

soupVars ==
    <<soup_pc, soup_tris, soup_src, soup_order, soup_pos, soup_keys, soup_sets, soup_pairs,
      soup_times, soup_mesh, soup_built>>

cubeVars ==
    <<cube_pc, cube_in, cube_self, cube_boundary, cube_triangles, cube_filled, cube_out>>

contourVars ==
    <<ctr_pc, ctr_in, ctr_mesh, ctr_ranges, ctr_slice, ctr_flips, ctr_run, ctr_begun, ctr_gone>>

sliceVars == <<slc_pc, slc_in, slc_imms, slc_face, slc_out>>

decimateVars == <<dec_pc, dec_in, dec_mesh, dec_ids, dec_run, dec_first, dec_log>>

gradientVars == <<grd_pc, grd_in, grd_face_ranges, grd_ranges, grd_out>>

vars == <<squareVars, soupVars, cubeVars, contourVars, sliceVars, decimateVars, gradientVars>>

----------------------------------------------------------------------------
(* Units and small helpers *)

\* 0.5 in model units (the literal 0.5 of the square and cube tests)
Half == 2

One == 2 * Half

Abs(n) == IF n < 0 THEN -n ELSE n

Range(s) == {s[i] : i \in DOMAIN s}

RECURSIVE SeqSum(_)
SeqSum(s) == IF s = <<>> THEN 0 ELSE Head(s) + SeqSum(Tail(s))

\* Keep the elements of s that satisfy Keep, in order.
FilterSeq(s, Keep(_)) ==
    LET RECURSIVE go(_)
        go(t) == IF t = <<>> THEN <<>>
                 ELSE (IF Keep(Head(t)) THEN <<Head(t)>> ELSE <<>>) \o go(Tail(t))
    IN  go(s)

\* The first index of s whose element satisfies P, or 0.
FirstIndex(s, P(_)) ==
    LET RECURSIVE go(_)
        go(i) == IF i > Len(s) THEN 0
                 ELSE IF P(s[i]) THEN i
                 ELSE go(i + 1)
    IN  go(1)

\* s without repeated elements, keeping first occurrences.
RECURSIVE DedupSeq(_)
DedupSeq(s) ==
    IF s = <<>> THEN <<>>
    ELSE LET init == DedupSeq(SubSeq(s, 1, Len(s) - 1))
             last == s[Len(s)]
         IN  IF last \in Range(init) THEN init ELSE Append(init, last)

\* Stable insertion sort of s by the strict order Less.
StableSort(s, Less(_, _)) ==
    LET RECURSIVE ins(_, _)
        ins(x, t) ==
            IF t = <<>> THEN <<x>>
            ELSE LET last == t[Len(t)]
                 IN  IF Less(x, last)
                     THEN Append(ins(x, SubSeq(t, 1, Len(t) - 1)), last)
                     ELSE Append(t, x)
        RECURSIVE go(_)
        go(t) == IF t = <<>> THEN <<>>
                 ELSE ins(t[Len(t)], go(SubSeq(t, 1, Len(t) - 1)))
    IN  go(s)

----------------------------------------------------------------------------
(* 2D vectors *)

Vec2Sub(a, b) == <<a[1] - b[1], a[2] - b[2]>>

Vec2Neg(a) == <<-a[1], -a[2]>>

Vec2Dot(a, b) == a[1] * b[1] + a[2] * b[2]

\* cgmath's perp_dot: self.x * other.y - self.y * other.x
PerpDot(a, b) == a[1] * b[2] - a[2] * b[1]

(***************************************************************************)
(* A real number num / sqrt(den2), den2 > 0: the dot product of a vector   *)
(* with a normalised edge.  None (den2 = 0) is Option::None.               *)
(***************************************************************************)
Rat(num, den2) == [num |-> num, den2 |-> den2]

None == Rat(0, 0)

IsNone(a) == a.den2 = 0

RatLess(a, b) ==
    IF a.num < 0 /\ b.num >= 0 THEN TRUE
    ELSE IF a.num >= 0 /\ b.num < 0 THEN FALSE
    ELSE IF a.num >= 0
         THEN a.num * a.num * b.den2 < b.num * b.num * a.den2
         ELSE a.num * a.num * b.den2 > b.num * b.num * a.den2

\* Option<f64> ordering: None is below every Some.
OptLess(a, b) ==
    IF IsNone(a) THEN ~IsNone(b)
    ELSE IF IsNone(b) THEN FALSE
    ELSE RatLess(a, b)

UnwrapOr(a, d) == IF IsNone(a) THEN d ELSE a

----------------------------------------------------------------------------
(***************************************************************************)
(* Directed graphs (petgraph::Graph<Vec2, ()>): a sequence of node weights *)
(* (positions) and a sequence of edges <<source, target>> indexing it.     *)
(* Node and edge order is kept by removals here; petgraph swaps the last   *)
(* element into a removed slot, which gives an isomorphic graph.           *)
(***************************************************************************)
EmptyGraph == [nodes |-> <<>>, edges |-> <<>>]

\* The elements of s at the indices in S, in ascending index order.
SelectByIndex(s, S) ==
    LET RECURSIVE go(_)
        go(i) == IF i > Len(s) THEN <<>>
                 ELSE (IF i \in S THEN <<s[i]>> ELSE <<>>) \o go(i + 1)
    IN  go(1)

indegree(g, n) == Cardinality({k \in DOMAIN g.edges : g.edges[k][2] = n})

outdegree(g, n) == Cardinality({k \in DOMAIN g.edges : g.edges[k][1] = n})

degree(g, n) == indegree(g, n) + outdegree(g, n)

\* Graph::find_edge(a, b) is Some
HasEdge(g, a, b) == \E k \in DOMAIN g.edges : g.edges[k] = <<a, b>>

(***************************************************************************)
(* Graph::retain_edges: edges are visited from the last index down; an     *)
(* edge is removed as soon as the closure rejects it, and the closure sees *)
(* the graph without the edges removed so far.                             *)
(***************************************************************************)
RetainEdges(g, Keep(_, _)) ==
    LET RECURSIVE go(_, _)
        go(k, alive) ==
            IF k = 0 THEN alive
            ELSE LET view == [nodes |-> g.nodes,
                              edges |-> SelectByIndex(g.edges, alive)]
                 IN  IF Keep(view, g.edges[k])
                     THEN go(k - 1, alive)
                     ELSE go(k - 1, alive \ {k})
    IN  [nodes |-> g.nodes,
         edges |-> SelectByIndex(g.edges, go(Len(g.edges), DOMAIN g.edges))]

(***************************************************************************)
(* Graph::retain_nodes: nodes are visited from the last index down; a      *)
(* rejected node is removed at once together with its edges.  The closure  *)
(* is given the graph (original node numbering) and the node's index.      *)
(***************************************************************************)
RetainNodes(g, Keep(_, _)) ==
    LET EdgesAmong(alive) ==
            FilterSeq(g.edges, LAMBDA e : e[1] \in alive /\ e[2] \in alive)
        RECURSIVE go(_, _)
        go(n, alive) ==
            IF n = 0 THEN alive
            ELSE LET view == [nodes |-> g.nodes, edges |-> EdgesAmong(alive)]
                 IN  IF Keep(view, n)
                     THEN go(n - 1, alive)
                     ELSE go(n - 1, alive \ {n})
        kept == go(Len(g.nodes), DOMAIN g.nodes)
        newIndex(n) == Cardinality({m \in kept : m <= n})
        keptEdges == EdgesAmong(kept)
    IN  [nodes |-> SelectByIndex(g.nodes, kept),
         edges |-> [k \in DOMAIN keptEdges |->
                        <<newIndex(keptEdges[k][1]), newIndex(keptEdges[k][2])>>]]

\* Graph::add_node
AddNode(g, pos) == [g EXCEPT !.nodes = Append(@, pos)]

\* Graph::add_edge
AddEdge(g, a, b) == [g EXCEPT !.edges = Append(@, <<a, b>>)]

\* node_map.get(&HashVec2(pos)): the index of the node at pos, 0 if none
NodeAt(g, pos) == FirstIndex(g.nodes, LAMBDA q : q = pos)

\* Graph::reverse
ReverseGraph(g) ==
    [g EXCEPT !.edges = [k \in DOMAIN g.edges |-> <<g.edges[k][2], g.edges[k][1]>>]]

\* The edges of g as <<source position, target position>>, in edge order.
EdgePosSeq(g) ==
    [k \in DOMAIN g.edges |-> <<g.nodes[g.edges[k][1]], g.nodes[g.edges[k][2]]>>]

EdgePosSet(g) == Range(EdgePosSeq(g))

NodePosSet(g) == Range(g.nodes)

\* No two nodes at one position, no two edges between the same ordered pair.
IsSimpleGraph(g) ==
    /\ Cardinality(NodePosSet(g)) = Len(g.nodes)
    /\ Cardinality(Range(g.edges)) = Len(g.edges)

----------------------------------------------------------------------------
(* The cube-face kernel: intersect_center_unit_square_on_graph *)

\* Variant of combine_equal_vertices with add_edge in the place of
\* update_edge
combine_equal_vertices_AddEdge(boundary) ==
    LET resNodes == DedupSeq(boundary.nodes)
        position_map(pos) == FirstIndex(resNodes, LAMBDA q : q = pos)
        mapped == [k \in DOMAIN boundary.edges |->
                      <<position_map(boundary.nodes[boundary.edges[k][1]]),
                        position_map(boundary.nodes[boundary.edges[k][2]])>>]
        noLoops == FilterSeq(mapped, LAMBDA e : e[1] /= e[2])
    IN  [nodes |-> resNodes, edges |-> noLoops]

combine_equal_vertices(boundary) ==
    LET resNodes == DedupSeq(boundary.nodes)
        position_map(pos) == FirstIndex(resNodes, LAMBDA q : q = pos)
        mapped == [k \in DOMAIN boundary.edges |->
                      <<position_map(boundary.nodes[boundary.edges[k][1]]),
                        position_map(boundary.nodes[boundary.edges[k][2]])>>]
        noLoops == FilterSeq(mapped, LAMBDA e : e[1] /= e[2])
    IN  \* update_edge adds an edge only if none joins index0 to index1 yet
        [nodes |-> resNodes, edges |-> DedupSeq(noLoops)]

\* "Remove slits": keep e unless the reverse edge is (still) in the graph.
RemoveSlits(g) ==
    RetainEdges(g, LAMBDA view, e : ~HasEdge(view, e[2], e[1]))

\* Edge is on boundary of face if at least 1 coordinate is +-0.5 and the same
OnSquareSide(pos0, pos1) ==
    \/ (Abs(pos0[1]) = Half /\ pos0[1] = pos1[1])
    \/ (Abs(pos0[2]) = Half /\ pos0[2] = pos1[2])

\* Variant of IsCcwSideEdge that ignores the direction of the edge
IsCcwSideEdge_AnyDirection(g, e) ==
    OnSquareSide(g.nodes[e[1]], g.nodes[e[2]])

IsCcwSideEdge(g, e) ==
    /\ OnSquareSide(g.nodes[e[1]], g.nodes[e[2]])
    /\ PerpDot(g.nodes[e[1]], g.nodes[e[2]]) > 0

IsSideEdge(g, e) == OnSquareSide(g.nodes[e[1]], g.nodes[e[2]])

StripCcw(g) == RetainEdges(g, LAMBDA view, e : ~IsCcwSideEdge(view, e))

RemoveLoneNodes(g) ==
    RetainNodes(g, LAMBDA view, n : indegree(view, n) + outdegree(view, n) > 0)

StripCw(g) == RetainEdges(g, LAMBDA view, e : ~IsSideEdge(view, e))

Corners == << <<-Half, -Half>>, <<-Half, Half>>, <<Half, Half>>, <<Half, -Half>> >>

OnPerimeter(pos) == Abs(pos[1]) = Half \/ Abs(pos[2]) = Half

\* The sort key of a perimeter point (the program's key times One).
PerimKey(pos) ==
    IF pos[1] = -Half THEN Half + pos[2]
    ELSE IF pos[2] = Half THEN 3 * Half + pos[1]
    ELSE IF pos[1] = Half THEN 5 * Half - pos[2]
    ELSE 7 * Half - pos[1]

\* Vec::dedup_by_key: drop an element equal to the one before it.
DedupConsecutive(s) ==
    SelectByIndex(s, {i \in DOMAIN s : i = 1 \/ s[i] /= s[i - 1]})

\* Find and order boundary points, including square corners
SquarePoints(g) ==
    DedupConsecutive(
        StableSort(Corners \o FilterSeq(g.nodes, OnPerimeter),
                   LAMBDA a, b : PerimKey(a) < PerimKey(b)))

InEdges(g, n) == {k \in DOMAIN g.edges : g.edges[k][2] = n}

OutEdges(g, n) == {k \in DOMAIN g.edges : g.edges[k][1] = n}

\* Finds the minimum dot product between the given vec and given edges
dot_fn(g, vec, edges) ==
    IF edges = {} THEN None
    ELSE LET dots == {LET d == Vec2Sub(g.nodes[g.edges[k][2]], g.nodes[g.edges[k][1]])
                      IN  Rat(Vec2Dot(d, vec), Vec2Dot(d, d)) : k \in edges}
         IN  CHOOSE r \in dots : \A s \in dots : ~RatLess(s, r)

\* Variant of StartIndex that compares the two dot products the other way
\* round
StartIndex_Swapped(g, points, ignored_ccw, ignored_cw) ==
    LET idx == [i \in 1..Len(points) |-> i]
        n(i) == NodeAt(g, points[i])
        first == FirstIndex(idx, LAMBDA i :
                     n(i) /= 0 /\ outdegree(g, n(i)) < indegree(g, n(i)))
        second == FirstIndex(idx, LAMBDA i :
                     /\ n(i) /= 0
                     /\ outdegree(g, n(i)) = indegree(g, n(i))
                     /\ LET next == points[(i % Len(points)) + 1]
                            diff == Vec2Sub(next, points[i])
                        IN  RatLess(
                              UnwrapOr(dot_fn(g, Vec2Neg(diff), OutEdges(g, n(i))),
                                       Rat(-1 * One, 1)),
                              UnwrapOr(dot_fn(g, diff, InEdges(g, n(i))), Rat(-2 * One, 1))))
    IN  IF first /= 0 THEN first
        ELSE IF second /= 0 THEN second
        ELSE IF Len(g.edges) = 0 /\ ignored_cw /\ ~ignored_ccw THEN 1
        ELSE 0

\* Find where to start drawing the square (0: no index).
StartIndex(g, points, ignored_ccw, ignored_cw) ==
    LET idx == [i \in 1..Len(points) |-> i]
        n(i) == NodeAt(g, points[i])
        first == FirstIndex(idx, LAMBDA i :
                     n(i) /= 0 /\ outdegree(g, n(i)) < indegree(g, n(i)))
        second == FirstIndex(idx, LAMBDA i :
                     /\ n(i) /= 0
                     /\ outdegree(g, n(i)) = indegree(g, n(i))
                     /\ LET next == points[(i % Len(points)) + 1]
                            diff == Vec2Sub(next, points[i])
                        IN  RatLess(
                              UnwrapOr(dot_fn(g, diff, InEdges(g, n(i))), Rat(-2 * One, 1)),
                              UnwrapOr(dot_fn(g, Vec2Neg(diff), OutEdges(g, n(i))),
                                       Rat(-1 * One, 1))))
    IN  IF first /= 0 THEN first
        ELSE IF second /= 0 THEN second
        ELSE IF Len(g.edges) = 0 /\ ignored_cw /\ ~ignored_ccw THEN 1
        ELSE 0

\* node_map.entry(pos).or_insert_with(|| boundary.add_node(pos))
EnsureNode(g, pos) == IF NodeAt(g, pos) /= 0 THEN g ELSE AddNode(g, pos)

\* Variant of WalkSquare that changes sides at the nodes of even degree
WalkSquare_Even(g, points, index) ==
    LET len == Len(points)
        RECURSIVE go(_, _, _)
        go(cur, i, inside) ==
            LET j == (i % len) + 1
                nj == NodeAt(cur, points[j])
                new_inside ==
                    (IF nj = 0 THEN FALSE ELSE degree(cur, nj) % 2 = 0) /= inside
                withNodes == EnsureNode(EnsureNode(cur, points[i]), points[j])
                drawn == IF inside
                         THEN AddEdge(withNodes, NodeAt(withNodes, points[i]),
                                                 NodeAt(withNodes, points[j]))
                         ELSE cur
            IN  IF j = index THEN drawn ELSE go(drawn, j, new_inside)
    IN  go(g, index, TRUE)

\* Variant of WalkSquare that begins outside
WalkSquare_Outside(g, points, index) ==
    LET len == Len(points)
        RECURSIVE go(_, _, _)
        go(cur, i, inside) ==
            LET j == (i % len) + 1
                nj == NodeAt(cur, points[j])
                new_inside ==
                    (IF nj = 0 THEN FALSE ELSE degree(cur, nj) % 2 /= 0) /= inside
                withNodes == EnsureNode(EnsureNode(cur, points[i]), points[j])
                drawn == IF inside
                         THEN AddEdge(withNodes, NodeAt(withNodes, points[i]),
                                                 NodeAt(withNodes, points[j]))
                         ELSE cur
            IN  IF j = index THEN drawn ELSE go(drawn, j, new_inside)
    IN  go(g, index, FALSE)

\* Draw the square around the boundary, but only the parts that are in
\* the intersection.
WalkSquare(g, points, index) ==
    LET len == Len(points)
        RECURSIVE go(_, _, _)
        go(cur, i, inside) ==
            LET j == (i % len) + 1
                nj == NodeAt(cur, points[j])
                new_inside ==
                    (IF nj = 0 THEN FALSE ELSE degree(cur, nj) % 2 /= 0) /= inside
                withNodes == EnsureNode(EnsureNode(cur, points[i]), points[j])
                drawn == IF inside
                         THEN AddEdge(withNodes, NodeAt(withNodes, points[i]),
                                                 NodeAt(withNodes, points[j]))
                         ELSE cur
            IN  IF j = index THEN drawn ELSE go(drawn, j, new_inside)
    IN  go(g, index, TRUE)

\* Obtain bottommost vertex. In case of tie, get rightmost vertex
BottomNode(g) ==
    LET less(a, b) == \/ g.nodes[a][2] < g.nodes[b][2]
                      \/ (g.nodes[a][2] = g.nodes[b][2] /\ -g.nodes[a][1] < -g.nodes[b][1])
    IN  \* min_by_key returns the first minimum
        CHOOSE n \in DOMAIN g.nodes :
            \A m \in DOMAIN g.nodes : ~less(m, n) /\ (m < n => less(n, m))

\* Variant of HoleWantsSquare with the comparison the other way round
HoleWantsSquare_Reversed(g) ==
    LET node == BottomNode(g)
    IN  OptLess(dot_fn(g, <<1, 0>>, InEdges(g, node)),
                dot_fn(g, <<-1, 0>>, OutEdges(g, node)))

\* The outer-hole test at the bottommost vertex
HoleWantsSquare(g) ==
    LET node == BottomNode(g)
    IN  OptLess(dot_fn(g, <<-1, 0>>, OutEdges(g, node)),
                dot_fn(g, <<1, 0>>, InEdges(g, node)))

\* A new node per point and an edge from each to the next, back to the first.
AddFullSquare(g, points) ==
    LET base == Len(g.nodes)
        len == Len(points)
    IN  [nodes |-> g.nodes \o points,
         edges |-> g.edges \o [k \in 1..len |-> <<base + k, base + (k % len) + 1>>]]

\* Variant of KernelExits that answers true after the search for the outer
\* hole only when the square was added
KernelExits_HoleAnswer(merged, noSlits, ignored_ccw, ignored_cw, g, points, index) ==
    [graph |-> IF ignored_ccw /\ ~ignored_cw /\ Len(g.edges) = 0 THEN g
               ELSE IF index /= 0 THEN WalkSquare(g, points, index)
               ELSE IF Len(g.edges) > 0 /\ HoleWantsSquare(g) THEN AddFullSquare(g, points)
               ELSE g,
     ret |-> (ignored_ccw /\ ~ignored_cw /\ Len(g.edges) = 0) \/ index /= 0
                 \/ (Len(g.edges) > 0 /\ HoleWantsSquare(g)),
     branch |-> IF ignored_ccw /\ ~ignored_cw /\ Len(g.edges) = 0 THEN "outside"
                ELSE IF index /= 0 THEN "walk"
                ELSE IF Len(g.edges) > 0 THEN "hole"
                ELSE "none",
     steps |-> [merged |-> merged, slitless |-> noSlits, stripped |-> g,
                ignored_ccw |-> ignored_ccw, ignored_cw |-> ignored_cw,
                points |-> points, index |-> index]]

\* The exits of the kernel, lines 739-743 and 842-914, with the graphs and
\* values of its steps
KernelExits(merged, noSlits, ignored_ccw, ignored_cw, g, points, index) ==
    [graph |-> IF ignored_ccw /\ ~ignored_cw /\ Len(g.edges) = 0 THEN g
               ELSE IF index /= 0 THEN WalkSquare(g, points, index)
               ELSE IF Len(g.edges) > 0 /\ HoleWantsSquare(g) THEN AddFullSquare(g, points)
               ELSE g,
     ret |-> (ignored_ccw /\ ~ignored_cw /\ Len(g.edges) = 0) \/ index /= 0
                 \/ Len(g.edges) > 0,
     branch |-> IF ignored_ccw /\ ~ignored_cw /\ Len(g.edges) = 0 THEN "outside"
                ELSE IF index /= 0 THEN "walk"
                ELSE IF Len(g.edges) > 0 THEN "hole"
                ELSE "none",
     steps |-> [merged |-> merged, slitless |-> noSlits, stripped |-> g,
                ignored_ccw |-> ignored_ccw, ignored_cw |-> ignored_cw,
                points |-> points, index |-> index]]

\* The kernel from the points on
KernelPoints(merged, noSlits, ignored_ccw, ignored_cw, g, points) ==
    KernelExits(merged, noSlits, ignored_ccw, ignored_cw, g, points,
                StartIndex(g, points, ignored_ccw, ignored_cw))

\* The kernel from the clockwise edges along the sides on
KernelCw(merged, noSlits, ignored_ccw, noCcw) ==
    KernelPoints(merged, noSlits, ignored_ccw,
                 \E k \in DOMAIN noCcw.edges : IsSideEdge(noCcw, noCcw.edges[k]),
                 StripCw(noCcw), SquarePoints(StripCw(noCcw)))

\* The kernel from the counterclockwise edges along the sides on
KernelCcw(merged, noSlits) ==
    KernelCw(merged, noSlits,
             \E k \in DOMAIN noSlits.edges : IsCcwSideEdge(noSlits, noSlits.edges[k]),
             RemoveLoneNodes(StripCcw(noSlits)))

intersect_center_unit_square_on_graph(boundary) ==
    KernelCcw(combine_equal_vertices(boundary), RemoveSlits(combine_equal_vertices(boundary)))

----------------------------------------------------------------------------
(* Input graphs for the cube-face kernel, on the grid of quarter units *)

\* At most this many edges along the sides of the square in an input graph
MaxSideEdges == 2

\* At most this many nodes in an input cycle inside the square
MaxCycleLen == 4

GridCoords == (-Half)..Half

GridPoints == GridCoords \X GridCoords

PerimPoints == {p \in GridPoints : OnPerimeter(p)}

InteriorPoints == {p \in GridPoints : ~OnPerimeter(p)}

PosRank(p) == (p[1] + Half) * (2 * Half + 1) + (p[2] + Half)

PairRank(e) == PosRank(e[1]) * (2 * Half + 1) * (2 * Half + 1) + PosRank(e[2])

\* The elements of the finite set S in ascending order of the injective Rank.
SortedSeqOf(S, Rank(_)) ==
    LET RECURSIVE go(_)
        go(T) == IF T = {} THEN <<>>
                 ELSE LET m == CHOOSE x \in T : \A y \in T : Rank(x) <= Rank(y)
                      IN  <<m>> \o go(T \ {m})
    IN  go(S)

\* The subsets of S with at most k elements.
RECURSIVE SubsetsUpTo(_, _)
SubsetsUpTo(S, k) ==
    IF k = 0 THEN {{}}
    ELSE LET smaller == SubsetsUpTo(S, k - 1)
         IN  smaller \cup {T \cup {x} : T \in smaller, x \in S}

\* The graph with an edge per pair of positions in E and the lone nodes L.
GraphOfPairs(E, L) ==
    LET nodes == SortedSeqOf({e[1] : e \in E} \cup {e[2] : e \in E} \cup L, PosRank)
        pairs == SortedSeqOf(E, PairRank)
        at(p) == FirstIndex(nodes, LAMBDA q : q = p)
    IN  [nodes |-> nodes,
         edges |-> [k \in DOMAIN pairs |-> <<at(pairs[k][1]), at(pairs[k][2])>>]]

\* The graph of the directed cycle through the positions of the sequence c.
GraphOfCycle(c) ==
    [nodes |-> c, edges |-> [k \in DOMAIN c |-> <<k, (k % Len(c)) + 1>>]]

\* Side segments of the square between grid points one step or a whole side apart
SidePairs ==
    {e \in PerimPoints \X PerimPoints :
        /\ OnSquareSide(e[1], e[2])
        /\ Abs(e[1][1] - e[2][1]) + Abs(e[1][2] - e[2][2]) \in {1, 2 * Half}}

CcwSidePairs == {e \in SidePairs : PerpDot(e[1], e[2]) > 0}

CwSidePairs == {e \in SidePairs : PerpDot(e[1], e[2]) < 0}

\* Nodes without any edge that an input may also hold
LoneChoices == {{}, {<<0, 0>>}, {<<Half, 0>>}}

SideInputs ==
    {GraphOfPairs(E, L \ ({e[1] : e \in E} \cup {e[2] : e \in E})) :
        E \in (SubsetsUpTo(CcwSidePairs, MaxSideEdges)
               \cup SubsetsUpTo(CwSidePairs, MaxSideEdges)) \ {{}},
        L \in LoneChoices}

\* Twice the signed area of the polygon c (positive: counterclockwise)
RECURSIVE Shoelace(_, _)
Shoelace(c, k) ==
    IF k > Len(c) THEN 0
    ELSE PerpDot(c[k], c[(k % Len(c)) + 1]) + Shoelace(c, k + 1)

Orient(a, b, c) == PerpDot(Vec2Sub(b, a), Vec2Sub(c, a))

Sign(n) == IF n > 0 THEN 1 ELSE IF n < 0 THEN -1 ELSE 0

\* p lies on the closed segment a-b
OnSegment(a, b, p) ==
    /\ Orient(a, b, p) = 0
    /\ Vec2Dot(Vec2Sub(p, a), Vec2Sub(p, b)) <= 0

\* The closed segments a-b and c-d have a common point
SegmentsMeet(a, b, c, d) ==
    \/ (Sign(Orient(a, b, c)) * Sign(Orient(a, b, d)) < 0
         /\ Sign(Orient(c, d, a)) * Sign(Orient(c, d, b)) < 0)
    \/ OnSegment(a, b, c) \/ OnSegment(a, b, d)
    \/ OnSegment(c, d, a) \/ OnSegment(c, d, b)

\* c is a simple polygon: edges meet only at shared end points of neighbours
IsSimplePolygon(c) ==
    LET n == Len(c)
        nxt(k) == (k % n) + 1
    IN  /\ n >= 3
        /\ \A i, j \in 1..n : i /= j => c[i] /= c[j]
        /\ \A i, j \in 1..n :
              i < j =>
                IF nxt(i) = j
                THEN ~OnSegment(c[i], c[j], c[nxt(j)]) /\ ~OnSegment(c[j], c[nxt(j)], c[i])
                ELSE IF nxt(j) = i
                THEN ~OnSegment(c[j], c[i], c[nxt(i)]) /\ ~OnSegment(c[i], c[nxt(i)], c[j])
                ELSE ~SegmentsMeet(c[i], c[nxt(i)], c[j], c[nxt(j)])

\* Sequences of n distinct elements of S that start at their least element
CycleSeqs(S, n) ==
    LET RECURSIVE ext(_)
        ext(k) == IF k = 0 THEN {<<>>}
                  ELSE {Append(s, x) : s \in ext(k - 1), x \in S}
    IN  {s \in ext(n) :
            /\ \A i, j \in 1..n : i /= j => s[i] /= s[j]
            /\ \A i \in 2..n : PosRank(s[1]) < PosRank(s[i])}

\* Simple cycles strictly inside the square, each listed from its least node
CycleInputs ==
    {GraphOfCycle(c) :
        c \in {s \in UNION {CycleSeqs(InteriorPoints, n) : n \in 3..MaxCycleLen} :
                  IsSimplePolygon(s)}}

\* The square cut into eight triangles by the diamond through the middles
\* of its sides and the two lines through its centre: the four at the
\* corners and the four round the centre, each listed clockwise
Cells ==
    << << <<-Half, -Half>>, <<-Half, 0>>, <<0, -Half>> >>,
       << <<-Half, Half>>, <<0, Half>>, <<-Half, 0>> >>,
       << <<Half, Half>>, <<Half, 0>>, <<0, Half>> >>,
       << <<Half, -Half>>, <<0, -Half>>, <<Half, 0>> >>,
       << <<0, 0>>, <<0, -Half>>, <<-Half, 0>> >>,
       << <<0, 0>>, <<-Half, 0>>, <<0, Half>> >>,
       << <<0, 0>>, <<0, Half>>, <<Half, 0>> >>,
       << <<0, 0>>, <<Half, 0>>, <<0, -Half>> >> >>

\* The sides of cell c, clockwise round it
CellSides(c) == {<<Cells[c][k], Cells[c][(k % 3) + 1]>> : k \in 1..3}

\* The boundary of the region made of the cells F, clockwise round it: the
\* sides that part a cell of F from a cell outside it, and, when sides is
\* TRUE, also those along the sides of the square
RegionBoundary(F, sides) ==
    {e \in UNION {CellSides(c) : c \in F} :
        /\ \A c \in F : <<e[2], e[1]>> \notin CellSides(c)
        /\ sides \/ ~OnSquareSide(e[1], e[2])}

\* The boundary graphs of the regions made of cells
RegionInputs ==
    {GraphOfPairs(RegionBoundary(F, sides), {}) :
        F \in SUBSET (1..8), sides \in BOOLEAN}

\* The graph of the directed cycles through the positions of c and of d
GraphOfCycles(c, d) ==
    [nodes |-> c \o d,
     edges |-> GraphOfCycle(c).edges
                  \o [k \in DOMAIN d |-> <<Len(c) + k, Len(c) + (k % Len(d)) + 1>>]]

\* A triangle with one corner in the middle of the top or the bottom side,
\* and a triangle in the other half of the square; each wound either way
TouchingInputs ==
    {GraphOfCycles(IF a THEN <<p, q, r>> ELSE <<p, r, q>>, IF b THEN <<u, v, w>> ELSE <<u, w, v>>) :
        a, b \in BOOLEAN,
        <<p, q, r, u, v, w>> \in
            {<< <<0, Half>>, <<-1, 1>>, <<1, 1>>, <<0, 0>>, <<-1, -1>>, <<1, -1>> >>,
             << <<0, -Half>>, <<-1, -1>>, <<1, -1>>, <<0, 0>>, <<-1, 1>>, <<1, 1>> >>}}

\* One edge across the square between two points of its perimeter
ChordInputs ==
    {GraphOfPairs({e}, {}) :
        e \in {x \in PerimPoints \X PerimPoints : x[1] /= x[2] /\ ~OnSquareSide(x[1], x[2])}}

SquareInputs ==
    SideInputs \cup CycleInputs \cup RegionInputs \cup TouchingInputs \cup ChordInputs
        \cup {EmptyGraph}

----------------------------------------------------------------------------
(* The cube-face kernel as a state machine: one call per behaviour *)

\* The record of the steps before any step is taken
NoSteps ==
    [merged |-> EmptyGraph, slitless |-> EmptyGraph, stripped |-> EmptyGraph,
     ignored_ccw |-> FALSE, ignored_cw |-> FALSE, points |-> <<>>, index |-> 0]

SquareIdle ==
    /\ sq_pc = "idle"
    /\ sq_in = EmptyGraph
    /\ sq_out = EmptyGraph
    /\ sq_ret = FALSE
    /\ sq_branch = "idle"
    /\ sq_steps = NoSteps

SquareStart ==
    /\ sq_pc = "ready"
    /\ sq_in \in SquareInputs
    /\ sq_out = EmptyGraph
    /\ sq_ret = FALSE
    /\ sq_branch = "idle"
    /\ sq_steps = NoSteps

\* MaterialMesh::intersect_center_unit_square_on_graph(&mut boundary)
SqIntersectOnGraph ==
    /\ sq_pc = "ready"
    /\ LET r == intersect_center_unit_square_on_graph(sq_in)
       IN  /\ sq_out' = r.graph
           /\ sq_ret' = r.ret
           /\ sq_branch' = r.branch
           /\ sq_steps' = r.steps
    /\ sq_pc' = "done"
    /\ UNCHANGED sq_in

----------------------------------------------------------------------------
(* Claims about the cube-face kernel *)

HasEdges(g) == Len(g.edges) > 0

\* p and q lie on one side of the square
OnOneSide(p, q) == \E i \in 1..2 : p[i] = q[i] /\ Abs(p[i]) = Half

AllEdgesOnSides(g) ==
    \A k \in DOMAIN g.edges :
        OnOneSide(g.nodes[g.edges[k][1]], g.nodes[g.edges[k][2]])

\* Counterclockwise: positive cross product of source and target
AllEdgesCcw(g) ==
    \A k \in DOMAIN g.edges :
        PerpDot(g.nodes[g.edges[k][1]], g.nodes[g.edges[k][2]]) > 0

AllEdgesCw(g) ==
    \A k \in DOMAIN g.edges :
        PerpDot(g.nodes[g.edges[k][1]], g.nodes[g.edges[k][2]]) < 0

\* The positions of the nodes of g that are an end point of some edge
EndPointPositions(g) ==
    {g.nodes[g.edges[k][1]] : k \in DOMAIN g.edges}
        \cup {g.nodes[g.edges[k][2]] : k \in DOMAIN g.edges}

\* g is exactly one closed clockwise cycle along the perimeter through the
\* four corners and the positions P: one node per position, one edge from
\* each position to the next one in walking order.
IsFullSquareThrough(g, P) ==
    LET all == Range(Corners) \cup P
        order == SortedSeqOf(all \cap PerimPoints, PerimKey)
        len == Len(order)
    IN  /\ all \subseteq PerimPoints
        /\ NodePosSet(g) = all
        /\ Len(g.nodes) = Cardinality(all)
        /\ Len(g.edges) = len
        /\ EdgePosSet(g) = {<<order[k], order[(k % len) + 1]>> : k \in 1..len}

\* C9 as stated: a graph whose edges all lie on the perimeter gives the
\* empty graph when they all run counterclockwise, and the full square
\* through the corners and every input node when they all run clockwise;
\* the call returns true in both cases.
C9_AsStated ==
    (sq_pc = "done" /\ HasEdges(sq_in) /\ AllEdgesOnSides(sq_in)) =>
        /\ AllEdgesCcw(sq_in) => (sq_ret /\ sq_out = EmptyGraph)
        /\ AllEdgesCw(sq_in) =>
              (sq_ret /\ IsFullSquareThrough(sq_out, NodePosSet(sq_in)))

\* C9 amended: as C9, but the clockwise cycle runs through the four corners
\* and every input node that is an end point of an edge; input nodes
\* without an edge are dropped.
C9_PerimeterOnly ==
    (sq_pc = "done" /\ HasEdges(sq_in) /\ AllEdgesOnSides(sq_in)) =>
        /\ AllEdgesCcw(sq_in) => (sq_ret /\ sq_out = EmptyGraph)
        /\ AllEdgesCw(sq_in) =>
              (sq_ret /\ IsFullSquareThrough(sq_out, EndPointPositions(sq_in)))

\* A clockwise input with a lone node has been processed into a cycle.
C9_Witness ==
    /\ sq_pc = "done"
    /\ HasEdges(sq_in) /\ AllEdgesCw(sq_in)
    /\ Len(sq_in.edges) = 2
    /\ NodePosSet(sq_in) /= EndPointPositions(sq_in)
    /\ sq_ret
    /\ Len(sq_out.edges) > 4

\* g is one directed simple cycle strictly inside the square
IsInteriorCycle(g) ==
    /\ Len(g.nodes) >= 3
    /\ g = GraphOfCycle(g.nodes)
    /\ Range(g.nodes) \subseteq InteriorPoints
    /\ IsSimplePolygon(g.nodes)

CornerCycleCw == {<<Corners[k], Corners[(k % 4) + 1]>> : k \in 1..4}

CornerCycleCcw == {<<Corners[(k % 4) + 1], Corners[k]>> : k \in 1..4}

\* out is g plus four new nodes at the corners joined in one square cycle
IsGraphPlusSquare(out, g) ==
    LET n == Len(g.nodes)
        m == Len(g.edges)
        added == [nodes |-> out.nodes,
                  edges |-> SubSeq(out.edges, m + 1, Len(out.edges))]
    IN  /\ Len(out.nodes) = n + 4
        /\ Len(out.edges) = m + 4
        /\ SubSeq(out.nodes, 1, n) = g.nodes
        /\ SubSeq(out.edges, 1, m) = g.edges
        /\ Range(SubSeq(out.nodes, n + 1, n + 4)) = Range(Corners)
        /\ \A k \in DOMAIN added.edges :
              added.edges[k][1] > n /\ added.edges[k][2] > n
        /\ EdgePosSet(added) \in {CornerCycleCw, CornerCycleCcw}

\* C10: a simple cycle strictly inside the square gets the four corners
\* and a full square cycle added, its own edges kept, when it is
\* counterclockwise, and is returned unchanged when it is clockwise; the
\* call returns true in both cases.
C10_InnerCycle ==
    (sq_pc = "done" /\ IsInteriorCycle(sq_in)) =>
        /\ sq_ret
        /\ Shoelace(sq_in.nodes, 1) > 0 => IsGraphPlusSquare(sq_out, sq_in)
        /\ Shoelace(sq_in.nodes, 1) < 0 => sq_out = sq_in

\* A counterclockwise quadrilateral has been enclosed by the square.
C10_Witness ==
    /\ sq_pc = "done"
    /\ IsInteriorCycle(sq_in)
    /\ Len(sq_in.nodes) = 4
    /\ Shoelace(sq_in.nodes, 1) > 0
    /\ Len(sq_out.nodes) = 8

----------------------------------------------------------------------------
(* Vectors in space, with integer coordinates *)

Vec3Sub(a, b) == <<a[1] - b[1], a[2] - b[2], a[3] - b[3]>>

Vec3Add(a, b) == <<a[1] + b[1], a[2] + b[2], a[3] + b[3]>>

Vec3Scale(a, k) == <<a[1] * k, a[2] * k, a[3] * k>>

Vec3Dot(a, b) == a[1] * b[1] + a[2] * b[2] + a[3] * b[3]

Vec3Cross(a, b) ==
    <<a[2] * b[3] - a[3] * b[2], a[3] * b[1] - a[1] * b[3], a[1] * b[2] - a[2] * b[1]>>

UnitX == <<1, 0, 0>>

UnitY == <<0, 1, 0>>

UnitZ == <<0, 0, 1>>

----------------------------------------------------------------------------
(* manifold_from_triangle_soup: a triangle soup is a sequence of triples of
   positions; corner i (from 0) of the soup is corner i % 3 of triangle i / 3 *)

\* positions: the corners of all triangles in one list, indexed from 0
FlattenSoup(triangles) ==
    [i \in 0..(3 * Len(triangles) - 1) |-> triangles[(i \div 3) + 1][(i % 3) + 1]]

\* i / 3 * 3 + (i + k) % 3: the corner k places after corner i in its triangle
CornerAfter(i, k) == ((i \div 3) * 3) + ((i + k) % 3)

\* The key of corner i in edge_face_map: the directed edge leaving it
EdgeKey(positions, i) == <<positions[i], positions[CornerAfter(i, 1)]>>

EdgeKeys(positions) == {EdgeKey(positions, i) : i \in DOMAIN positions}

\* edge_face_map[key]: the corners with that key, in ascending order
EdgeFaces(positions, key) ==
    LET RECURSIVE upTo(_)
        upTo(i) == IF i < 0 THEN <<>>
                   ELSE IF EdgeKey(positions, i) = key
                   THEN Append(upTo(i - 1), i)
                   ELSE upTo(i - 1)
    IN  upTo(3 * (Cardinality(DOMAIN positions) \div 3) - 1)

\* Some vector perpendicular to the edge direction d = e1 - e0; it is the
\* program's perp times |d|.  |dir . x| > 0.9 is 100 d.x^2 > 81 |d|^2.
PerpOf(d) ==
    IF 100 * d[1] * d[1] > 81 * Vec3Dot(d, d)
    THEN Vec3Cross(d, UnitY)
    ELSE Vec3Cross(d, UnitX)

\* The pair (perp . proj, perp x proj . dir) whose atan2 is the sort key of
\* corner i around the edge e0 -> e0 + d.  Both are scaled by positive
\* factors: x by |d|^3, y by |d|^4.
AngleOf(positions, e0, d, i) ==
    LET vec_out == Vec3Sub(positions[CornerAfter(i, 2)], e0)
        proj == Vec3Sub(Vec3Scale(vec_out, Vec3Dot(d, d)),
                        Vec3Scale(d, Vec3Dot(vec_out, d)))
        perp == PerpOf(d)
    IN  [x |-> Vec3Dot(perp, proj), y |-> Vec3Dot(Vec3Cross(perp, proj), d)]

\* Where atan2(y, x) lies: 0 in (-pi, 0), 1 at 0, 2 in (0, pi), 3 at pi
AngleClass(a) ==
    IF a.y < 0 THEN 0
    ELSE IF a.y > 0 THEN 2
    ELSE IF a.x >= 0 THEN 1
    ELSE 3

AngleLess(a, b) ==
    \/ AngleClass(a) < AngleClass(b)
    \/ /\ AngleClass(a) = AngleClass(b)
       /\ AngleClass(a) \in {0, 2}
       /\ a.x * b.y - b.x * a.y > 0

\* Order of the keys (FloatOrd(angle), !fwd)
AngleDirLess(p, q) ==
    \/ AngleLess(p.angle, q.angle)
    \/ (~AngleLess(q.angle, p.angle) /\ p.fwd /\ ~q.fwd)

\* angles_dirs after sorting: forward corners, then inverse corners, sorted
\* by angle around the edge with forward before inverse at equal angles
AnglesDirs(positions, key) ==
    LET e0 == key[1]
        d == Vec3Sub(key[2], key[1])
        indexes_fwd == EdgeFaces(positions, key)
        indexes_inv == EdgeFaces(positions, <<key[2], key[1]>>)
        entry(i, fwd) == [i |-> i, fwd |-> fwd, angle |-> AngleOf(positions, e0, d, i)]
        unsorted == [k \in DOMAIN indexes_fwd |-> entry(indexes_fwd[k], TRUE)]
                    \o [k \in DOMAIN indexes_inv |-> entry(indexes_inv[k], FALSE)]
    IN  StableSort(unsorted, AngleDirLess)

RemoveAt(s, k) == SubSeq(s, 1, k - 1) \o SubSeq(s, k + 1, Len(s))

\* The first inverse entry of angles_dirs (0: none)
InvIndex(angles_dirs) == FirstIndex(angles_dirs, LAMBDA e : ~e.fwd)

\* The first forward entry met going round from just after inv_index (0: none)
FwdIndex(angles_dirs, inv_index) ==
    LET len == Len(angles_dirs)
        at(k) == ((inv_index + k - 1) % len) + 1
        steps == {k \in 1..len : angles_dirs[at(k)].fwd}
    IN  IF inv_index = 0 \/ steps = {} THEN 0
        ELSE at(CHOOSE k \in steps : \A m \in steps : k <= m)

\* The pairings made by the inner loop, in order; each records the list it
\* was made on and the two places paired
RECURSIVE Pairings(_)
Pairings(angles_dirs) ==
    LET inv_index == InvIndex(angles_dirs)
        fwd_index == FwdIndex(angles_dirs, inv_index)
        hi == IF inv_index > fwd_index THEN inv_index ELSE fwd_index
        lo == IF inv_index > fwd_index THEN fwd_index ELSE inv_index
    IN  IF inv_index = 0 \/ fwd_index = 0 THEN <<>>
        ELSE <<[list |-> angles_dirs, inv_index |-> inv_index, fwd_index |-> fwd_index]>>
             \o Pairings(RemoveAt(RemoveAt(angles_dirs, hi), lo))

\* petgraph UnionFind, kept as the map from each element to the least
\* element of its set
UnionFindNew(n) == [i \in 0..(n - 1) |-> i]

\* Variant of Union that joins nothing
Union_Nothing(sets, a, b) == sets

Union(sets, a, b) ==
    LET ra == sets[a]
        rb == sets[b]
        r == IF ra < rb THEN ra ELSE rb
    IN  [i \in DOMAIN sets |-> IF sets[i] = ra \/ sets[i] = rb THEN r ELSE sets[i]]

\* Variant of LinkPair that joins the corners at the same place in their
\* triangles, as if both wound the edge the same way
LinkPair_SameWay(sets, pairing) ==
    LET inv_i == pairing.list[pairing.inv_index].i
        fwd_i == pairing.list[pairing.fwd_index].i
    IN  Union(Union(sets, inv_i, fwd_i), CornerAfter(inv_i, 1), CornerAfter(fwd_i, 1))

\* The two unions of one pairing
LinkPair(sets, pairing) ==
    LET inv_i == pairing.list[pairing.inv_index].i
        inv_j == CornerAfter(inv_i, 1)
        fwd_i == pairing.list[pairing.fwd_index].i
        fwd_j == CornerAfter(fwd_i, 1)
    IN  Union(Union(sets, inv_i, fwd_j), inv_j, fwd_i)

RECURSIVE LinkPairs(_, _)
LinkPairs(sets, pairings) ==
    IF pairings = <<>> THEN sets
    ELSE LinkPairs(LinkPair(sets, Head(pairings)), Tail(pairings))

\* The indexed mesh handed to MeshBuilder: one vertex per set of corners
\* (named by the least corner of the set), the triangles as triples of
\* vertices, and the default tag on every face
DefaultTag == 1

EmptyMesh == [verts |-> {}, pos |-> <<>>, faces |-> <<>>, tags |-> <<>>]

BuildMesh(positions, sets) ==
    LET n == Cardinality(DOMAIN positions) \div 3
        verts == {sets[i] : i \in DOMAIN sets}
        \* points[3 * index ..] is overwritten by every corner of the set
        last(v) == CHOOSE i \in DOMAIN sets :
                      sets[i] = v /\ \A j \in DOMAIN sets : sets[j] = v => j <= i
    IN  [verts |-> verts,
         pos |-> [v \in verts |-> positions[last(v)]],
         faces |-> [f \in 1..n |->
                      <<sets[3 * (f - 1)], sets[3 * (f - 1) + 1], sets[3 * (f - 1) + 2]>>],
         tags |-> [f \in 1..n |-> DefaultTag]]

\* The sides of face f as ordered pairs of vertices
FaceSides(mesh, f) ==
    {<<mesh.faces[f][k], mesh.faces[f][(k % 3) + 1]>> : k \in 1..3}

MeshSides(mesh) == UNION {FaceSides(mesh, f) : f \in DOMAIN mesh.faces}

\* Mesh::num_vertices, num_edges, num_faces
NumVertices(mesh) == Cardinality(mesh.verts)

NumEdges(mesh) == Cardinality({{s[1], s[2]} : s \in MeshSides(mesh)})

NumFaces(mesh) == Len(mesh.faces)

\* Variant of IndexMap that takes the representative itself for the index
IndexMap_Rep(sets, order) == [r \in {sets[i] : i \in DOMAIN sets} |-> r]

\* index_map: the representatives of rep_map, numbered from 0 as the set of
\* them yields them; the order of a hash set is not specified, here it is
\* ascending or descending
IndexMap(sets, order) ==
    LET reps == SortedSeqOf({sets[i] : i \in DOMAIN sets},
                            LAMBDA r : IF order = "ascending" THEN r ELSE -r)
    IN  [r \in {sets[i] : i \in DOMAIN sets} |-> (CHOOSE k \in DOMAIN reps : reps[k] = r) - 1]

NothingBuilt == [points |-> <<>>, indexes |-> <<>>]

\* points and indexes: indexes holds the index of every corner in the order
\* of the soup; points holds one position for each index, written by every
\* corner of that index in turn, 0.0 where none writes
Emit(positions, sets, index_map) ==
    LET corners == DOMAIN sets
        writers(k) == {i \in corners : index_map[sets[i]] = k}
        last(k) == CHOOSE i \in writers(k) : \A j \in writers(k) : j <= i
    IN  [points |-> [k \in 1..Cardinality(DOMAIN index_map) |->
                       IF writers(k - 1) = {} THEN <<0, 0, 0>> ELSE positions[last(k - 1)]],
         indexes |-> [c \in 1..Cardinality(corners) |-> index_map[sets[c - 1]]]]

\* manifold_from_triangle_soup with the edges linked in ascending key order
RECURSIVE LinkAll(_, _, _)
LinkAll(positions, keys, sets) ==
    IF keys = {} THEN sets
    ELSE LET key == CHOOSE k \in keys : TRUE
         IN  LinkAll(positions, keys \ {key, <<key[2], key[1]>>},
                     LinkPairs(sets, Pairings(AnglesDirs(positions, key))))

manifold_from_triangle_soup(triangles) ==
    LET positions == FlattenSoup(triangles)
    IN  BuildMesh(positions,
                  LinkAll(positions, EdgeKeys(positions),
                          UnionFindNew(3 * Len(triangles))))

----------------------------------------------------------------------------
(* manifold_from_triangle_soup as a state machine: one step per edge taken
   from edge_face_map, in any order, then the mesh is built *)

\* What is known of the mesh a soup was listed from: the vertex of every
\* corner, and for a closed surface its components and genus
NoSource == [labels |-> <<>>, closed |-> FALSE, components |-> 0, genus |-> 0]

\* A total order on the keys of edge_face_map
KeyRank(key) ==
    LET r(p) == ((p[1] + 16) * 32 + (p[2] + 16)) * 32 + (p[3] + 16)
    IN  r(key[1]) * 32768 + r(key[2])

\* The keys that keys().next() may yield: the map's iteration order is not
\* specified, so any key ("any"), or the first in a fixed order
NextKeys(keys, order) ==
    IF order = "any" THEN keys
    ELSE IF order = "ascending"
    THEN {k \in keys : \A m \in keys : KeyRank(k) <= KeyRank(m)}
    ELSE {k \in keys : \A m \in keys : KeyRank(k) >= KeyRank(m)}

\* What a pairing joined: the two corners, and how many still-unpaired
\* entries lay between them round the edge (the fewer of the two ways round)
PairingMade(pairing) ==
    LET len == Len(pairing.list)
        after == (pairing.fwd_index - pairing.inv_index - 1) % len
        before == (pairing.inv_index - pairing.fwd_index - 1) % len
    IN  [corners |-> {pairing.list[pairing.inv_index].i,
                      pairing.list[pairing.fwd_index].i},
         gap |-> IF after < before THEN after ELSE before]

SoupIdle ==
    /\ soup_pc = "idle"
    /\ soup_tris = <<>>
    /\ soup_src = NoSource
    /\ soup_order = "any"
    /\ soup_pos = <<>>
    /\ soup_keys = {}
    /\ soup_sets = <<>>
    /\ soup_pairs = {}
    /\ soup_times = <<>>
    /\ soup_mesh = EmptyMesh
    /\ soup_built = NothingBuilt

SoupStart(triangles, src, order) ==
    /\ soup_pc = "link"
    /\ soup_tris = triangles
    /\ soup_src = src
    /\ soup_order = order
    /\ soup_pos = FlattenSoup(triangles)
    /\ soup_keys = EdgeKeys(FlattenSoup(triangles))
    /\ soup_sets = UnionFindNew(3 * Len(triangles))
    /\ soup_pairs = {}
    /\ soup_times = [i \in 0..(3 * Len(triangles) - 1) |-> 0]
    /\ soup_mesh = EmptyMesh
    /\ soup_built = NothingBuilt

\* One round of "while let Some((e0, e1)) = edge_face_map.keys().next()"
SoupLinkEdge ==
    /\ soup_pc = "link"
    /\ \E key \in NextKeys(soup_keys, soup_order) :
          \E pairings \in {Pairings(AnglesDirs(soup_pos, key))} :
              LET made == {PairingMade(pairings[k]) : k \in DOMAIN pairings}
                  paired(i) == Cardinality({m \in made : i \in m.corners})
              IN  /\ soup_keys' = soup_keys \ {key, <<key[2], key[1]>>}
                  /\ soup_sets' = LinkPairs(soup_sets, pairings)
                  /\ soup_pairs' = soup_pairs \cup made
                  /\ soup_times' = [i \in DOMAIN soup_times |-> soup_times[i] + paired(i)]
    /\ UNCHANGED <<soup_pc, soup_tris, soup_src, soup_order, soup_pos, soup_mesh, soup_built>>

\* The map is empty: label the sets and build the mesh
SoupBuild ==
    /\ soup_pc = "link"
    /\ soup_keys = {}
    /\ soup_mesh' = BuildMesh(soup_pos, soup_sets)
    /\ \E order \in {"ascending", "descending"} :
          soup_built' = Emit(soup_pos, soup_sets, IndexMap(soup_sets, order))
    /\ soup_pc' = "done"
    /\ UNCHANGED <<soup_tris, soup_src, soup_order, soup_pos, soup_keys, soup_sets, soup_pairs, soup_times>>

----------------------------------------------------------------------------
(* Triangle soups *)

TestTriangle == << <<<<0, 0, 0>>, <<1, 0, 0>>, <<0, 1, 0>>>> >>

TestSquare ==
    << <<<<0, 0, 0>>, <<1, 0, 0>>, <<0, 1, 0>>>>,
       <<<<1, 1, 0>>, <<0, 1, 0>>, <<1, 0, 0>>>> >>

TestTetraflap ==
    << <<<<0, 0, 0>>, <<2, 1, 0>>, <<0, 2, 0>>>>,
       <<<<0, 2, 0>>, <<0, 1, 2>>, <<0, 0, 0>>>>,
       <<<<0, 0, 0>>, <<-2, 1, 0>>, <<0, 2, 0>>>>,
       <<<<0, 2, 0>>, <<0, 1, -2>>, <<0, 0, 0>>>> >>

TestTetrahedron ==
    << <<<<0, 0, 0>>, <<1, 0, 1>>, <<0, 1, 1>>>>,
       <<<<1, 1, 0>>, <<0, 1, 1>>, <<1, 0, 1>>>>,
       <<<<0, 0, 0>>, <<1, 1, 0>>, <<1, 0, 1>>>>,
       <<<<1, 1, 0>>, <<0, 0, 0>>, <<0, 1, 1>>>> >>

\* At most this many triangles around the shared edge of a fan
MaxFan == 4

\* The shared edge e0 -> e0 + d of a fan, and two directions a, b across it.
\* The first is the edge of the tetraflap test (perp from unit_x); the
\* second lies along x (perp from unit_y).
FanAxes ==
    { [d |-> <<0, 2, 0>>, mid |-> <<0, 1, 0>>, a |-> <<2, 0, 0>>, b |-> <<0, 0, 2>>],
      [d |-> <<2, 0, 0>>, mid |-> <<1, 0, 0>>, a |-> <<0, 2, 0>>, b |-> <<0, 0, 2>>] }

\* Where the third corner of a fan triangle lies, as multiples of a and b
FanDirs == {<<1, 1>>, <<-1, 1>>, <<-1, -1>>}

\* A fan triangle: a direction, and whether it runs along the edge (forward)
FanEntries == FanDirs \X BOOLEAN

FanRank(e) == 4 * (e[1][1] + 1) + 2 * (e[1][2] + 1) + (IF e[2] THEN 0 ELSE 1)

FanTriangle(axis, e) ==
    LET e0 == <<0, 0, 0>>
        e1 == axis.d
        apex == Vec3Add(axis.mid,
                        Vec3Add(Vec3Scale(axis.a, e[1][1]), Vec3Scale(axis.b, e[1][2])))
    IN  IF e[2] THEN <<e0, e1, apex>> ELSE <<e1, e0, apex>>

FanSoup(axis, S) ==
    LET order == SortedSeqOf(S, FanRank)
    IN  [k \in DOMAIN order |-> FanTriangle(axis, order[k])]

\* Four triangles round one edge, in angular order two against the edge
\* and then two along it
CrossedFan ==
    << <<<<0, 0, 0>>, <<0, 2, 0>>, <<-2, 1, -2>>>>,
       <<<<0, 0, 0>>, <<0, 2, 0>>, <<-2, 1, 2>>>>,
       <<<<0, 2, 0>>, <<0, 0, 0>>, <<2, 1, -2>>>>,
       <<<<0, 2, 0>>, <<0, 0, 0>>, <<2, 1, 2>>>> >>

\* Four triangles round one edge, all on one side of the plane the angles
\* are measured from: in angular order one against the edge, two along it,
\* one against it
FoldedFan ==
    << <<<<0, 2, 0>>, <<0, 0, 0>>, <<-2, 1, -2>>>>,
       <<<<0, 0, 0>>, <<0, 2, 0>>, <<-2, 1, -1>>>>,
       <<<<0, 0, 0>>, <<0, 2, 0>>, <<-2, 1, 1>>>>,
       <<<<0, 2, 0>>, <<0, 0, 0>>, <<-2, 1, 2>>>> >>

FanSoups ==
    {FanSoup(axis, S) : axis \in FanAxes, S \in SubsetsUpTo(FanEntries, MaxFan) \ {{}}}
        \cup {TestTetraflap, CrossedFan, FoldedFan}

----------------------------------------------------------------------------
(* Meshes to list soups from: pos gives the position of every vertex, faces
   the triangles as triples of vertices *)

\* At most this many faces in a patch cut from the octahedron
MaxPatch == 3

\* face_iter + face_positions: the soup of a mesh
ListFaces(mesh) ==
    [f \in DOMAIN mesh.faces |->
        <<mesh.pos[mesh.faces[f][1]], mesh.pos[mesh.faces[f][2]], mesh.pos[mesh.faces[f][3]]>>]

\* The vertex of every corner of that soup
CornerLabels(mesh) ==
    [i \in 0..(3 * Len(mesh.faces) - 1) |-> mesh.faces[(i \div 3) + 1][(i % 3) + 1]]

SourceOf(mesh, closed, components, genus) ==
    [labels |-> CornerLabels(mesh), closed |-> closed,
     components |-> components, genus |-> genus]

\* The mesh of a soup in which equal positions are one vertex
MeshOfSoup(triangles) ==
    LET positions == FlattenSoup(triangles)
        first(p) == CHOOSE i \in DOMAIN positions :
                       positions[i] = p /\ \A j \in DOMAIN positions : positions[j] = p => i <= j
        ids == {first(positions[i]) : i \in DOMAIN positions}
    IN  [pos |-> [v \in ids |-> positions[v]],
         faces |-> [f \in DOMAIN triangles |->
                      <<first(triangles[f][1]), first(triangles[f][2]), first(triangles[f][3])>>]]

\* The faces of mesh that meet vertex v
FacesAt(mesh, v) ==
    {f \in DOMAIN mesh.faces : \E k \in 1..3 : mesh.faces[f][k] = v}

\* Faces f and g have two vertices in common
ShareEdge(mesh, f, g) ==
    Cardinality({mesh.faces[f][k] : k \in 1..3} \cap {mesh.faces[g][k] : k \in 1..3}) = 2

\* The faces of F reachable from those of R across shared edges
RECURSIVE FaceClosure(_, _, _)
FaceClosure(mesh, F, R) ==
    LET more == {g \in F \ R : \E f \in R : ShareEdge(mesh, f, g)}
    IN  IF more = {} THEN R ELSE FaceClosure(mesh, F, R \cup more)

\* Oriented and manifold: no directed edge twice, and the faces round every
\* vertex hang together across its edges
IsManifoldMesh(mesh) ==
    /\ \A f, g \in DOMAIN mesh.faces :
          f /= g => FaceSides([faces |-> mesh.faces], f) \cap FaceSides([faces |-> mesh.faces], g) = {}
    /\ \A f \in DOMAIN mesh.faces : Cardinality({mesh.faces[f][k] : k \in 1..3}) = 3
    /\ \A f \in DOMAIN mesh.faces : \A k \in 1..3 :
          LET at == FacesAt(mesh, mesh.faces[f][k])
          IN  FaceClosure(mesh, at, {f}) = at

\* The octahedron with corners on the axes, faces counterclockwise from outside
OctaPos ==
    << <<1, 0, 0>>, <<-1, 0, 0>>, <<0, 1, 0>>, <<0, -1, 0>>, <<0, 0, 1>>, <<0, 0, -1>> >>

OctaFaces ==
    << <<1, 3, 5>>, <<3, 2, 5>>, <<2, 4, 5>>, <<4, 1, 5>>,
       <<3, 1, 6>>, <<2, 3, 6>>, <<4, 2, 6>>, <<1, 4, 6>> >>

Octahedron == [pos |-> OctaPos, faces |-> OctaFaces]

PatchMesh(S) ==
    LET order == SortedSeqOf(S, LAMBDA f : f)
    IN  [pos |-> OctaPos, faces |-> [k \in DOMAIN order |-> OctaFaces[order[k]]]]

Patches ==
    {m \in {PatchMesh(S) : S \in SubsetsUpTo(1..8, MaxPatch) \ {{}}} : IsManifoldMesh(m)}

\* The tetrahedron of the test, moved by t
TetrahedronAt(t) ==
    [f \in DOMAIN TestTetrahedron |->
        [k \in 1..3 |-> Vec3Add(TestTetrahedron[f][k], t)]]

\* Two tetrahedra: apart, or touching in one corner
TetrahedronOffsets == {<<2, 0, 0>>, <<1, 1, 0>>}

TwoTetrahedra(t) ==
    LET one == MeshOfSoup(TestTetrahedron)
        other == MeshOfSoup(TetrahedronAt(t))
        n == 3 * Len(TestTetrahedron)
    IN  [pos |-> [v \in DOMAIN one.pos \cup {w + n : w \in DOMAIN other.pos} |->
                     IF v < n THEN one.pos[v] ELSE other.pos[v - n]],
         faces |-> one.faces \o [f \in DOMAIN other.faces |->
                                   [k \in 1..3 |-> other.faces[f][k] + n]]]

\* Two tetrahedra with one edge in common, the smaller inside the larger:
\* round the common edge the faces come as inverse, inverse, forward, forward
NestedTetrahedra ==
    [pos |-> << <<0, 0, 0>>, <<0, 2, 0>>, <<4, 1, 4>>, <<4, 1, -4>>,
                <<0, 0, 0>>, <<0, 2, 0>>, <<2, 1, 1>>, <<2, 1, -1>> >>,
     faces |-> << <<2, 3, 4>>, <<1, 4, 3>>, <<1, 2, 4>>, <<1, 3, 2>>,
                  <<6, 7, 8>>, <<5, 8, 7>>, <<5, 6, 8>>, <<5, 7, 6>> >>]

\* The two triangles of the square test as a mesh of two separate triangles
SplitSquare ==
    [pos |-> << <<0, 0, 0>>, <<1, 0, 0>>, <<0, 1, 0>>, <<1, 1, 0>>, <<0, 1, 0>>, <<1, 0, 0>> >>,
     faces |-> << <<1, 2, 3>>, <<4, 5, 6>> >>]

\* A torus: three triangular sections round the z axis, the bands between
\* neighbouring sections cut into triangles (9 vertices, 27 edges, 18 faces)
TorusSpokes == << <<2, 0>>, <<-1, 2>>, <<-1, -2>> >>

\* Distance from the axis and height of the three corners of a section
TorusSection == << <<1, 0>>, <<2, -1>>, <<2, 1>> >>

TorusVertex(k, j) == 3 * (k - 1) + j

TorusPos ==
    [v \in 1..9 |->
        LET k == ((v - 1) \div 3) + 1
            j == ((v - 1) % 3) + 1
        IN  <<TorusSection[j][1] * TorusSpokes[k][1],
              TorusSection[j][1] * TorusSpokes[k][2],
              TorusSection[j][2]>>]

TorusFaces ==
    [n \in 1..18 |->
        LET q == (n - 1) \div 2
            k == (q \div 3) + 1
            j == (q % 3) + 1
            k1 == (k % 3) + 1
            j1 == (j % 3) + 1
        IN  IF n % 2 = 1
            THEN <<TorusVertex(k, j), TorusVertex(k1, j), TorusVertex(k1, j1)>>
            ELSE <<TorusVertex(k, j), TorusVertex(k1, j1), TorusVertex(k, j1)>>]

Torus == [pos |-> TorusPos, faces |-> TorusFaces]

\* The inputs: [triangles, src, order]
SurfaceInput(mesh, closed, components, genus, order) ==
    [triangles |-> ListFaces(mesh),
     src |-> SourceOf(mesh, closed, components, genus),
     order |-> order]

SurfaceInputs ==
    {SurfaceInput(m, FALSE, 0, 0, "any") : m \in Patches}
        \cup {SurfaceInput(MeshOfSoup(t), FALSE, 0, 0, "any") : t \in {TestTriangle, TestSquare}}
        \cup {SurfaceInput(SplitSquare, FALSE, 0, 0, "any")}
        \cup {SurfaceInput(MeshOfSoup(TestTetrahedron), TRUE, 1, 0, "any")}
        \cup {SurfaceInput(Octahedron, TRUE, 1, 0, "any")}
        \cup {SurfaceInput(TwoTetrahedra(t), TRUE, 2, 0, "any") : t \in TetrahedronOffsets}
        \cup {SurfaceInput(NestedTetrahedra, TRUE, 2, 0, "any")}
        \cup {SurfaceInput(Torus, TRUE, 1, 1, o) : o \in {"ascending", "descending"}}

----------------------------------------------------------------------------
(* Claims about manifold_from_triangle_soup *)

\* C6: every pairing around a shared edge joins an inverse half-edge with
\* the forward half-edge immediately next to it in the cyclic angular order,
\* no still-unpaired entry between the two; no half-edge is paired twice;
\* the tetraflap comes out with 8 vertices, 10 edges and 4 faces.
C6_AdjacentPairing ==
    /\ \A m \in soup_pairs : m.gap = 0
    /\ \A i \in DOMAIN soup_times : soup_times[i] <= 1
    /\ (soup_pc = "done" /\ soup_tris = TestTetraflap) =>
          /\ NumVertices(soup_mesh) = 8
          /\ NumEdges(soup_mesh) = 10
          /\ NumFaces(soup_mesh) = 4

\* The vertex of corner i in the mesh built
BuiltVertex(i) == soup_mesh.faces[(i \div 3) + 1][(i % 3) + 1]

\* The mesh built is the mesh the soup was listed from, up to the names of
\* the vertices: two corners are one vertex in the one exactly if they are
\* in the other, every vertex keeps its position, and the numbers of
\* vertices, edges and faces agree
RoundTripHolds ==
    LET labels == soup_src.labels
        corners == DOMAIN labels
    IN  /\ \A i, j \in corners : (labels[i] = labels[j]) <=> (BuiltVertex(i) = BuiltVertex(j))
        /\ \A i \in corners : soup_mesh.pos[BuiltVertex(i)] = soup_pos[i]
        /\ NumVertices(soup_mesh) = Cardinality({labels[i] : i \in corners})
        /\ NumEdges(soup_mesh)
              = Cardinality({{labels[i], labels[CornerAfter(i, 1)]} : i \in corners})
        /\ NumFaces(soup_mesh) = Len(soup_tris)

TestCounts(triangles, v, e, f) ==
    soup_tris = triangles =>
        /\ NumVertices(soup_mesh) = v
        /\ NumEdges(soup_mesh) = e
        /\ NumFaces(soup_mesh) = f

\* Distinct vertices of the original mesh lie at distinct positions
DistinctPositions ==
    \A i, j \in DOMAIN soup_src.labels :
        soup_src.labels[i] /= soup_src.labels[j] => soup_pos[i] /= soup_pos[j]

\* C7 as stated: the soup listed from any oriented manifold mesh is built
\* back into a mesh isomorphic to it (triangle: 3, 3, 1; square: 4, 5, 2).
C7_AsStated ==
    (soup_pc = "done" /\ soup_src /= NoSource) =>
        /\ RoundTripHolds
        /\ TestCounts(TestTriangle, 3, 3, 1)
        /\ TestCounts(TestSquare, 4, 5, 2)

\* C7 amended: the soup listed from an oriented manifold mesh whose distinct
\* vertices lie at distinct positions is built back into a mesh isomorphic
\* to it (triangle: 3, 3, 1; two triangles sharing an edge: 4, 5, 2).
C7_RoundTrip ==
    (soup_pc = "done" /\ soup_src /= NoSource /\ DistinctPositions) =>
        /\ RoundTripHolds
        /\ TestCounts(TestTriangle, 3, 3, 1)
        /\ (soup_tris = TestSquare => NumVertices(soup_mesh) = 4 /\ NumEdges(soup_mesh) = 5
                                        /\ NumFaces(soup_mesh) = 2)

\* A patch of three faces with a boundary has been built back.
C7_Witness ==
    /\ soup_pc = "done"
    /\ ~soup_src.closed
    /\ DistinctPositions
    /\ Len(soup_tris) = 3
    /\ NumVertices(soup_mesh) = 5
    /\ NumEdges(soup_mesh) = 7

\* C8: for the soup of a closed oriented surface the mesh built has
\* V - E + F = 2 * components - 2 * genus; the tetrahedron gives 4, 6, 4.
C8_Euler ==
    (soup_pc = "done" /\ soup_src.closed) =>
        /\ NumVertices(soup_mesh) - NumEdges(soup_mesh) + NumFaces(soup_mesh)
              = 2 * soup_src.components - 2 * soup_src.genus
        /\ TestCounts(TestTetrahedron, 4, 6, 4)

\* The torus has been built: 9 - 27 + 18 = 0.
C8_Witness ==
    /\ soup_pc = "done"
    /\ soup_src.closed
    /\ soup_src.genus = 1
    /\ NumVertices(soup_mesh) = 9
    /\ NumEdges(soup_mesh) = 27
    /\ NumFaces(soup_mesh) = 18

----------------------------------------------------------------------------
(* intersect_unit_cube: meshes [pos, faces, tags], positions in quarter
   units, the cube of side One with its least corner at cube_min *)

\* Mesh::translate / translated
Translated(mesh, t) ==
    [mesh EXCEPT !.pos = [v \in DOMAIN mesh.pos |-> Vec3Add(mesh.pos[v], t)]]

\* Variant of FromCube that forgets the half unit
FromCube_NoHalf(cube_min) == cube_min

\* cube_min + vec3(0.5, 0.5, 0.5)
FromCube(cube_min) == Vec3Add(cube_min, <<Half, Half, Half>>)

\* -cube_min - vec3(0.5, 0.5, 0.5)
ToCube(cube_min) == Vec3Sub(Vec3Scale(cube_min, -1), <<Half, Half, Half>>)

\* All sides of all faces, in face order
SideSeq(mesh) ==
    [i \in 1..(3 * Len(mesh.faces)) |->
        <<mesh.faces[((i - 1) \div 3) + 1][((i - 1) % 3) + 1],
          mesh.faces[((i - 1) \div 3) + 1][(i % 3) + 1]>>]

\* is_edge_on_boundary for a half-edge that has a face: no face on the twin
IsBoundarySide(mesh, s) == <<s[2], s[1]>> \notin MeshSides(mesh)

\* Variant of boundary_graph that takes the half-edge without a face
boundary_graph_Twins(mesh) ==
    LET sides == SideSeq(mesh)
        onBoundary == {i \in DOMAIN sides : IsBoundarySide(mesh, sides[i])}
        verts == {v \in DOMAIN mesh.pos : \E i \in onBoundary : v \in {sides[i][1], sides[i][2]}}
        indexes(v) == Cardinality({w \in verts : w <= v})
        edges == SelectByIndex(sides, onBoundary)
    IN  RemoveLoneNodes(
            [nodes |-> SelectByIndex(mesh.pos, verts),
             edges |-> [k \in DOMAIN edges |-> <<indexes(edges[k][2]), indexes(edges[k][1])>>]])

\* Gets a graph of the boundary, with correct winding direction on the
\* edges. Lone vertices are removed.
boundary_graph(mesh) ==
    LET sides == SideSeq(mesh)
        onBoundary == {i \in DOMAIN sides : IsBoundarySide(mesh, sides[i])}
        verts == {v \in DOMAIN mesh.pos : \E i \in onBoundary : v \in {sides[i][1], sides[i][2]}}
        indexes(v) == Cardinality({w \in verts : w <= v})
        edges == SelectByIndex(sides, onBoundary)
    IN  RemoveLoneNodes(
            [nodes |-> SelectByIndex(mesh.pos, verts),
             edges |-> [k \in DOMAIN edges |-> <<indexes(edges[k][1]), indexes(edges[k][2])>>]])

\* The six cube faces in the order they are filled
Normals ==
    << UnitX, Vec3Scale(UnitX, -1), UnitY, Vec3Scale(UnitY, -1), UnitZ, Vec3Scale(UnitZ, -1) >>

\* Mat3::from_cols(unit_y, unit_z, unit_x) * normal
Tangent(normal) == <<normal[3], normal[1], normal[2]>>

Bitangent(normal) == Vec3Cross(normal, Tangent(normal))

\* square_transform: columns tangent, normal x tangent, normal, 0.5 normal
SquareTransform(normal, q) ==
    Vec3Add(Vec3Add(Vec3Scale(Tangent(normal), q[1]), Vec3Scale(Bitangent(normal), q[2])),
            Vec3Add(Vec3Scale(normal, q[3]), Vec3Scale(normal, Half)))

\* inv_square_transform (the frame is orthonormal: the inverse rotation is
\* the transpose)
InvSquareTransform(normal, p) ==
    <<Vec3Dot(p, Tangent(normal)), Vec3Dot(p, Bitangent(normal)), Vec3Dot(p, normal) - Half>>

\* Get part of boundary on this face
FaceBoundary(boundary, normal) ==
    LET kept == {n \in DOMAIN boundary.nodes : Vec3Dot(boundary.nodes[n], normal) = Half}
        index(n) == Cardinality({m \in kept : m <= n})
        among == SelectByIndex(boundary.edges,
                     {k \in DOMAIN boundary.edges :
                         boundary.edges[k][1] \in kept /\ boundary.edges[k][2] \in kept})
        flat == [n \in DOMAIN boundary.nodes |->
                    LET q == InvSquareTransform(normal, boundary.nodes[n])
                    IN  <<q[1], q[2]>>]
    IN  [nodes |-> SelectByIndex(flat, kept),
         edges |-> [k \in DOMAIN among |-> <<index(among[k][1]), index(among[k][2])>>]]

\* Mesh::transformed(inv_square_transform)
InSquareFrame(mesh, normal) ==
    [mesh EXCEPT !.pos = [v \in DOMAIN mesh.pos |-> InvSquareTransform(normal, mesh.pos[v])]]

\* Three times the volume term of face f:
\* (center.z - -1.0) * (pos.1 - pos.0).cross(pos.2 - pos.0).dot(unit_z)
VolumeTerm(mesh, f) ==
    LET p0 == mesh.pos[mesh.faces[f][1]]
        p1 == mesh.pos[mesh.faces[f][2]]
        p2 == mesh.pos[mesh.faces[f][3]]
    IN  (p0[3] + p1[3] + p2[3] + 3 * One)
            * Vec3Dot(Vec3Cross(Vec3Sub(p1, p0), Vec3Sub(p2, p0)), UnitZ)

Volume(mesh) == SeqSum([f \in DOMAIN mesh.faces |-> VolumeTerm(mesh, f)])

\* Variant of the context fallback that also takes a volume of zero
intersect_center_unit_square_with_context_OrZero(mesh, boundary) ==
    IF Volume(mesh) <= 0 THEN AddFullSquare(boundary, Corners) ELSE boundary

\* Find the volume under the mesh to determine whether the square is
\* outside or inside.
intersect_center_unit_square_with_context(mesh, boundary) ==
    IF Volume(mesh) < 0 THEN AddFullSquare(boundary, Corners) ELSE boundary

----------------------------------------------------------------------------
(* Polygon::from_boundary(..).triangulate(): the edges of the reversed graph
   wind counterclockwise round the regions to fill.  Each region is traced
   as a cycle of edges and cut into triangles ear by ear, on the cycle's own
   corners only.  Regions with holes inside them are not bridged: the meshes
   below give none. *)

\* Where d lies on the way round clockwise from the direction back:
\* 1 within the first half turn, 2 at the half turn, 3 beyond it, 4 at back
TurnClass(back, d) ==
    IF PerpDot(back, d) < 0 THEN 1
    ELSE IF PerpDot(back, d) > 0 THEN 3
    ELSE IF Vec2Dot(back, d) < 0 THEN 2 ELSE 4

\* d1 comes before d2 on the way round clockwise from back
TurnsFirst(back, d1, d2) ==
    \/ TurnClass(back, d1) < TurnClass(back, d2)
    \/ (TurnClass(back, d1) = TurnClass(back, d2) /\ PerpDot(d1, d2) < 0)

\* The edge that follows edge k round the region on its left (0: none)
FollowingEdge(g, k) ==
    LET at == g.edges[k][2]
        back == Vec2Sub(g.nodes[g.edges[k][1]], g.nodes[at])
        dir(c) == Vec2Sub(g.nodes[g.edges[c][2]], g.nodes[at])
        out == OutEdges(g, at)
    IN  IF out = {} THEN 0
        ELSE CHOOSE c \in out :
                \A e \in out : e = c \/ TurnsFirst(back, dir(c), dir(e))
                                     \/ (dir(e) = dir(c) /\ c < e)

\* The edges round the region left of edge start, from edge k on
RECURSIVE TraceRegion(_, _, _, _)
TraceRegion(g, start, k, steps) ==
    LET next == FollowingEdge(g, k)
    IN  IF next = start \/ next = 0 \/ steps = 0 THEN <<k>>
        ELSE <<k>> \o TraceRegion(g, start, next, steps - 1)

\* The regions of g, each as the sequence of its corners
RECURSIVE Regions(_, _)
Regions(g, left) ==
    IF left = {} THEN <<>>
    ELSE LET start == CHOOSE k \in left : \A m \in left : k <= m
             round == TraceRegion(g, start, start, Len(g.edges))
         IN  <<[i \in DOMAIN round |-> g.nodes[g.edges[round[i]][1]]]>>
                 \o Regions(g, left \ Range(round))

\* p lies in the closed triangle a, b, c (counterclockwise)
InTriangle(a, b, c, p) ==
    Orient(a, b, p) >= 0 /\ Orient(b, c, p) >= 0 /\ Orient(c, a, p) >= 0

\* Corner i of the polygon is an ear: a left turn, no other corner within
IsEar(poly, i) ==
    LET n == Len(poly)
        a == poly[((i + n - 2) % n) + 1]
        b == poly[i]
        c == poly[(i % n) + 1]
    IN  /\ Orient(a, b, c) > 0
        /\ \A j \in 1..n : poly[j] \in {a, b, c} \/ ~InTriangle(a, b, c, poly[j])

RECURSIVE EarClip(_)
EarClip(poly) ==
    LET n == Len(poly)
        ears == {i \in 1..n : IsEar(poly, i)}
    IN  IF n < 3 \/ ears = {} THEN <<>>
        ELSE LET i == CHOOSE e \in ears : \A o \in ears : e <= o
             IN  << <<poly[((i + n - 2) % n) + 1], poly[i], poly[(i % n) + 1]>> >>
                     \o EarClip(SelectByIndex(poly, (1..n) \ {i}))

RECURSIVE TriangulateAll(_)
TriangulateAll(regions) ==
    IF regions = <<>> THEN <<>>
    ELSE EarClip(Head(regions)) \o TriangulateAll(Tail(regions))

\* from_boundary is Some: the edges form closed cycles
IsPolygon(g) == \A n \in DOMAIN g.nodes : indegree(g, n) = outdegree(g, n)

Triangulate(g) == TriangulateAll(Regions(g, DOMAIN g.edges))

----------------------------------------------------------------------------
(* One cube face, and the whole of intersect_unit_cube *)

\* Variant of FilledGraph that never asks the context
FilledGraph_KernelOnly(mesh, on_graph) == on_graph.graph

\* The graph to fill: that of the kernel, or with the context if the
\* kernel could not tell
FilledGraph(mesh, on_graph) ==
    IF on_graph.ret THEN on_graph.graph
    ELSE intersect_center_unit_square_with_context(mesh, on_graph.graph)

\* Polygon::from_boundary(boundary).expect(..).triangulate(): [ok, tris];
\* not ok is the panic of expect
PolygonTriangles(boundary) ==
    [ok |-> IsPolygon(boundary), tris |-> Triangulate(boundary)]

\* [ok, tris] of the fill, with what led to it: the kernel's answer ret, the
\* graph it left and the graph that was filled
intersect_center_unit_square(mesh, boundary) ==
    LET on_graph == intersect_center_unit_square_on_graph(boundary)
        filled == FilledGraph(mesh, on_graph)
        polygon == PolygonTriangles(ReverseGraph(filled))
    IN  [ok |-> polygon.ok, tris |-> polygon.tris, ret |-> on_graph.ret,
         kernel |-> on_graph.graph, filled |-> filled]

\* The triangles tris_2d of the square, back in space
InSpace(normal, tris_2d) ==
    [k \in DOMAIN tris_2d |->
        [i \in 1..3 |-> SquareTransform(normal, <<tris_2d[k][i][1], tris_2d[k][i][2], 0>>)]]

\* The triangles that fill the cube face of this normal
FaceFill(mesh, boundary, normal) ==
    intersect_center_unit_square(InSquareFrame(mesh, normal), FaceBoundary(boundary, normal))

----------------------------------------------------------------------------
(* intersect_unit_cube as a state machine: the six cube faces are filled
   one after the other, the soup is handed to manifold_from_triangle_soup,
   and the mesh it builds is moved back *)

CubeIdle ==
    /\ cube_pc = "idle"
    /\ cube_in = [mesh |-> EmptyMesh, cube_min |-> <<0, 0, 0>>, order |-> "any"]
    /\ cube_self = EmptyMesh
    /\ cube_boundary = EmptyGraph
    /\ cube_triangles = <<>>
    /\ cube_filled = <<>>
    /\ cube_out = EmptyMesh

CubeStart(mesh, cube_min, order) ==
    /\ cube_pc = "call"
    /\ cube_in = [mesh |-> mesh, cube_min |-> cube_min, order |-> order]
    /\ cube_self = EmptyMesh
    /\ cube_boundary = EmptyGraph
    /\ cube_triangles = <<>>
    /\ cube_filled = <<>>
    /\ cube_out = EmptyMesh

\* Cube center is at origin; the boundary; the triangles of the mesh
CubeEnter ==
    /\ cube_pc = "call"
    /\ \E self \in {Translated(cube_in.mesh, ToCube(cube_in.cube_min))} :
          /\ cube_self' = self
          /\ cube_boundary' = boundary_graph(self)
          /\ cube_triangles' = ListFaces(self)
    /\ cube_pc' = "faces"
    /\ UNCHANGED <<cube_in, cube_filled, cube_out>>

\* Fill in the next of the 6 cube faces
CubeFillFace ==
    /\ cube_pc = "faces"
    /\ Len(cube_filled) < Len(Normals)
    /\ \E normal \in {Normals[Len(cube_filled) + 1]} :
          \E fill \in {FaceFill(cube_self, cube_boundary, normal)} :
              IF fill.ok
              THEN /\ cube_triangles' = cube_triangles \o InSpace(normal, fill.tris)
                   /\ cube_filled' = Append(cube_filled,
                                            [normal |-> normal, count |-> Len(fill.tris),
                                             ret |-> fill.ret, kernel |-> fill.kernel,
                                             filled |-> fill.filled])
                   /\ cube_pc' = "faces"
              ELSE /\ cube_pc' = "panic"
                   /\ UNCHANGED <<cube_triangles, cube_filled>>
    /\ UNCHANGED <<cube_in, cube_self, cube_boundary, cube_out>>

\* The call of manifold_from_triangle_soup(triangles)
CubeAssemble ==
    /\ cube_pc = "faces"
    /\ Len(cube_filled) = Len(Normals)
    /\ cube_pc' = "soup"
    /\ soup_pc' = "link"
    /\ soup_tris' = cube_triangles
    /\ soup_src' = NoSource
    /\ soup_order' = cube_in.order
    /\ soup_pos' = FlattenSoup(cube_triangles)
    /\ soup_keys' = EdgeKeys(FlattenSoup(cube_triangles))
    /\ soup_sets' = UnionFindNew(3 * Len(cube_triangles))
    /\ soup_pairs' = {}
    /\ soup_times' = [i \in 0..(3 * Len(cube_triangles) - 1) |-> 0]
    /\ soup_mesh' = EmptyMesh
    /\ soup_built' = NothingBuilt
    /\ UNCHANGED <<cube_in, cube_self, cube_boundary, cube_triangles, cube_filled, cube_out>>

\* The mesh built, translated back
CubeReturn ==
    /\ cube_pc = "soup"
    /\ soup_pc = "done"
    /\ cube_out' = Translated(soup_mesh, FromCube(cube_in.cube_min))
    /\ cube_pc' = "done"
    /\ UNCHANGED <<cube_in, cube_self, cube_boundary, cube_triangles, cube_filled>>

----------------------------------------------------------------------------
(* Meshes for intersect_unit_cube, given for the cube at the origin *)

\* Material ids run from 1 to MaxTag
MaxTag == 2

\* cube_min has coordinates of up to MaxCubeMin units
MaxCubeMin == 1

\* test_intersect_unit_cube_diagonal_plane, and the same with the faces
\* turned over
DiagonalQuad(flip) ==
    [pos |-> << <<0, One, 0>>, <<One, 0, 0>>, <<One, 0, One>>, <<0, One, One>> >>,
     faces |-> IF flip THEN << <<1, 3, 2>>, <<3, 1, 4>> >>
               ELSE << <<1, 2, 3>>, <<3, 4, 1>> >>]

\* A triangle across the three cube edges at the least corner
CornerCut(flip) ==
    [pos |-> << <<Half, 0, 0>>, <<0, Half, 0>>, <<0, 0, Half>> >>,
     faces |-> IF flip THEN << <<1, 3, 2>> >> ELSE << <<1, 2, 3>> >>]

\* A pyramid with its apex at the centre of the cube and its base, open, on
\* the top face through the four midpoints of the sides
Pyramid(flip) ==
    [pos |-> << <<Half, Half, Half>>, <<One, Half, One>>, <<Half, One, One>>,
                <<0, Half, One>>, <<Half, 0, One>> >>,
     faces |-> IF flip THEN << <<1, 3, 2>>, <<1, 4, 3>>, <<1, 5, 4>>, <<1, 2, 5>> >>
               ELSE << <<1, 2, 3>>, <<1, 3, 4>>, <<1, 4, 5>>, <<1, 5, 2>> >>]

\* The tetrahedron of test_boundary_square_context_tet_outside, strictly
\* inside the cube; turned over it is that of .._tet_inside
InnerTetrahedron(flip) ==
    [pos |-> << <<1, 1, 1>>, <<3, 3, 1>>, <<3, 1, 3>>, <<1, 3, 3>> >>,
     faces |-> IF flip THEN << <<1, 3, 2>>, <<3, 1, 4>>, <<2, 4, 1>>, <<4, 2, 3>> >>
               ELSE << <<1, 2, 3>>, <<3, 4, 1>>, <<2, 1, 4>>, <<4, 3, 2>> >>]

\* Two small tetrahedra of the same size strictly inside the cube, at
\* opposite corners, each wound either way
TetrahedronPair(flip1, flip2) ==
    [pos |-> << <<1, 1, 1>>, <<2, 1, 1>>, <<1, 2, 1>>, <<1, 1, 2>>,
                <<3, 3, 3>>, <<2, 3, 3>>, <<3, 2, 3>>, <<3, 3, 2>> >>,
     faces |-> (IF flip1 THEN << <<1, 2, 3>>, <<1, 4, 2>>, <<1, 3, 4>>, <<2, 4, 3>> >>
                ELSE << <<1, 3, 2>>, <<1, 2, 4>>, <<1, 4, 3>>, <<2, 3, 4>> >>)
               \o (IF flip2 THEN << <<5, 7, 6>>, <<5, 6, 8>>, <<5, 8, 7>>, <<6, 7, 8>> >>
                   ELSE << <<5, 6, 7>>, <<5, 8, 6>>, <<5, 7, 8>>, <<6, 8, 7>> >>)]

ClosedShapes == {InnerTetrahedron(f) : f \in BOOLEAN}
                    \cup {TetrahedronPair(f, g) : f, g \in BOOLEAN}

CubeShapes == {DiagonalQuad(f) : f \in BOOLEAN} \cup {CornerCut(f) : f \in BOOLEAN}
                  \cup {Pyramid(f) : f \in BOOLEAN} \cup ClosedShapes

CubeMins == {<<One * a, One * b, -One * a>> : a, b \in 0..MaxCubeMin}

\* The shape moved to the cube at cube_min, face f tagged s, s + 1, ...
CubeMesh(shape, cube_min, s) ==
    [pos |-> [v \in DOMAIN shape.pos |-> Vec3Add(shape.pos[v], cube_min)],
     faces |-> shape.faces,
     tags |-> [f \in DOMAIN shape.faces |-> ((f + s) % MaxTag) + 1]]

CubeInputs ==
    {[mesh |-> CubeMesh(shape, cube_min, s), cube_min |-> cube_min, order |-> order] :
        shape \in CubeShapes, cube_min \in CubeMins, s \in 1..MaxTag,
        order \in {"ascending", "descending"}}

----------------------------------------------------------------------------
(* Claims about intersect_unit_cube *)

\* The three positions of face f, in winding order
FacePositions(mesh, f) ==
    <<mesh.pos[mesh.faces[f][1]], mesh.pos[mesh.faces[f][2]], mesh.pos[mesh.faces[f][3]]>>

\* C2: every face of the input keeps its material id: the output face on the
\* same three positions carries the id the input face carried.
C2_TagsPreserved ==
    cube_pc = "done" =>
        \A f \in DOMAIN cube_in.mesh.faces : \A g \in DOMAIN cube_out.faces :
            Range(FacePositions(cube_out, g)) = Range(FacePositions(cube_in.mesh, f))
                => cube_out.tags[g] = cube_in.mesh.tags[f]

\* p lies in the plane of the cube face with this normal, cube at cube_min
InFacePlane(p, normal, cube_min) ==
    Vec3Dot(Vec3Sub(Vec3Sub(p, cube_min), <<Half, Half, Half>>), normal) = Half

IsAxisNormal(normal) ==
    Cardinality({i \in 1..3 : normal[i] = 0}) = 2 /\ Vec3Dot(normal, normal) = 1

\* C3: the faces of the output are the faces of the input, each on its own
\* three positions in its own winding order, followed by the triangles that
\* fill the six cube faces, every cube face filled exactly once.
C3_InputKept ==
    cube_pc = "done" =>
        LET n == Len(cube_in.mesh.faces)
            counts == [k \in DOMAIN cube_filled |-> cube_filled[k].count]
            before(k) == n + SeqSum(SubSeq(counts, 1, k - 1))
        IN  /\ \A f \in 1..n : FacePositions(cube_out, f) = FacePositions(cube_in.mesh, f)
            /\ Len(cube_out.faces) = n + SeqSum(counts)
            /\ Len(cube_filled) = 6
            /\ Cardinality({cube_filled[k].normal : k \in DOMAIN cube_filled}) = 6
            /\ \A k \in DOMAIN cube_filled :
                  /\ IsAxisNormal(cube_filled[k].normal)
                  /\ \A g \in (before(k) + 1)..(before(k) + counts[k]) : \A i \in 1..3 :
                        InFacePlane(FacePositions(cube_out, g)[i], cube_filled[k].normal,
                                    cube_in.cube_min)

\* A mesh with differing material ids has been cut by a cube away from the
\* origin, and cube faces were filled.
C3_Witness ==
    /\ cube_pc = "done"
    /\ cube_in.cube_min /= <<0, 0, 0>>
    /\ Len(cube_out.faces) = Len(cube_in.mesh.faces) + 6
    /\ \E k \in DOMAIN cube_filled : cube_filled[k].count = 0
    /\ \E f \in DOMAIN cube_in.mesh.faces : cube_in.mesh.tags[f] /= DefaultTag

\* The faces of mesh that have the edge between vertices a and b
FacesOnEdge(mesh, a, b) ==
    {f \in DOMAIN mesh.faces : \E s \in FaceSides(mesh, f) : {s[1], s[2]} = {a, b}}

IsClosedMesh(mesh) ==
    \A s \in MeshSides(mesh) :
        /\ Cardinality(FacesOnEdge(mesh, s[1], s[2])) = 2
        /\ <<s[2], s[1]>> \in MeshSides(mesh)

\* p lies on the surface of the cube at cube_min, in the face across axis i
OnCubeFace(p, cube_min, i) ==
    /\ p[i] \in {cube_min[i], cube_min[i] + One}
    /\ \A j \in 1..3 : cube_min[j] <= p[j] /\ p[j] <= cube_min[j] + One

\* What intersect_unit_cube assumes: a manifold mesh, every boundary edge in
\* a cube face, no triangle in the plane of a cube face
MeetsAssumptions(mesh, cube_min) ==
    /\ IsManifoldMesh(mesh)
    /\ \A s \in MeshSides(mesh) :
          IsBoundarySide(mesh, s) =>
              \E i \in 1..3 : /\ OnCubeFace(mesh.pos[s[1]], cube_min, i)
                              /\ OnCubeFace(mesh.pos[s[2]], cube_min, i)
                              /\ mesh.pos[s[1]][i] = mesh.pos[s[2]][i]
    /\ \A f \in DOMAIN mesh.faces :
          ~\E i \in 1..3 : \E c \in {cube_min[i], cube_min[i] + One} :
              \A k \in 1..3 : mesh.pos[mesh.faces[f][k]][i] = c

IsDiagonalQuad(mesh, cube_min) ==
    /\ cube_min = <<0, 0, 0>>
    /\ mesh.pos = << <<0, One, 0>>, <<One, 0, 0>>, <<One, 0, One>>, <<0, One, One>> >>
    /\ mesh.faces = << <<1, 2, 3>>, <<3, 4, 1>> >>

PrismCorners ==
    { <<0, One, 0>>, <<One, 0, 0>>, <<One, 0, One>>, <<0, One, One>>,
      <<One, One, 0>>, <<One, One, One>> }

\* C4: for a manifold mesh with its boundary on the surface of the cube and
\* no triangle in the plane of a cube face the output is closed, every edge
\* shared by exactly two faces; the diagonal quad gives the prism of 6
\* vertices, 12 edges and 8 faces.
C4_Closed ==
    (cube_pc = "done" /\ MeetsAssumptions(cube_in.mesh, cube_in.cube_min)) =>
        /\ IsClosedMesh(cube_out)
        /\ IsDiagonalQuad(cube_in.mesh, cube_in.cube_min) =>
              /\ {cube_out.pos[v] : v \in cube_out.verts} = PrismCorners
              /\ NumVertices(cube_out) = 6
              /\ NumEdges(cube_out) = 12
              /\ NumFaces(cube_out) = 8

----------------------------------------------------------------------------
(* axis_contour and split_edge.  Meshes are [pos, faces, tags]; a half-edge
   is the pair <<from, to>> of its vertices; coordinates are whole numbers
   of a unit of which EPSILON is Eps. *)

\* MaterialMesh::EPSILON
Eps == 2

\* Mesh::move_vertex_to
MoveVertex(mesh, v, p) == [mesh EXCEPT !.pos[v] = p]

\* Mesh::split_edge(halfedge_id, position): a new vertex on the edge from a
\* to b; every face on the edge becomes two, both with the tag of the face
MeshSplitEdge(mesh, a, b, p) ==
    LET v == Len(mesh.pos) + 1
        on == {f \in DOMAIN mesh.faces : {a, b} \subseteq Range(mesh.faces[f])}
        swap(face, old) == [k \in 1..3 |-> IF face[k] = old THEN v ELSE face[k]]
        added == SelectByIndex(mesh.faces, on)
        addedTags == SelectByIndex(mesh.tags, on)
    IN  [pos |-> Append(mesh.pos, p),
         faces |-> [f \in DOMAIN mesh.faces |->
                      IF f \in on THEN swap(mesh.faces[f], b) ELSE mesh.faces[f]]
                   \o [k \in DOMAIN added |-> swap(added[k], a)],
         tags |-> mesh.tags \o addedTags]

\* The vertex of face that is neither a nor b
ThirdVertex(face, a, b) == CHOOSE c \in Range(face) : c /= a /\ c /= b

\* The faces that have the side from a to b
FacesWithSide(mesh, a, b) == {f \in DOMAIN mesh.faces : <<a, b>> \in FaceSides(mesh, f)}

\* Mesh::flip_edge is Ok: a face on either side, and the two vertices
\* opposite the edge not yet joined by an edge
CanFlipEdge(mesh, a, b) ==
    /\ FacesWithSide(mesh, a, b) /= {}
    /\ FacesWithSide(mesh, b, a) /= {}
    /\ \A f \in FacesWithSide(mesh, a, b) : \A g \in FacesWithSide(mesh, b, a) :
          \A s \in MeshSides(mesh) :
              {s[1], s[2]} /= {ThirdVertex(mesh.faces[f], a, b), ThirdVertex(mesh.faces[g], a, b)}

\* Mesh::flip_edge: the edge a-b between the faces (a, b, c) and (b, a, d)
\* becomes the edge c-d between (a, d, c) and (d, b, c)
MeshFlipEdge(mesh, a, b) ==
    LET f == CHOOSE x \in FacesWithSide(mesh, a, b) : TRUE
        g == CHOOSE x \in FacesWithSide(mesh, b, a) : TRUE
        c == ThirdVertex(mesh.faces[f], a, b)
        d == ThirdVertex(mesh.faces[g], a, b)
    IN  [mesh EXCEPT !.faces[f] = <<a, d, c>>, !.faces[g] = <<d, b, c>>]

\* Mesh::vertex_halfedge_iter(v): the half-edges that leave v, as a
\* sequence; order tells which way round the vertex it runs
HalfedgesFrom(mesh, v, order) ==
    LET to == {s[2] : s \in {x \in MeshSides(mesh) : x[1] = v}}
                  \cup {s[1] : s \in {x \in MeshSides(mesh) : x[2] = v}}
        n == Len(mesh.pos) + 1
    IN  [k \in 1..Cardinality(to) |->
            <<v, SortedSeqOf(to, LAMBDA w : IF order = "ascending" THEN w ELSE n - w)[k]>>]

\* Variant of PointsUp with the comparison the other way round
PointsUp_Down(mesh, h, axis) == mesh.pos[h[2]][axis + 1] < mesh.pos[h[1]][axis + 1]

\* pos.1[axis_id] > pos.0[axis_id]
PointsUp(mesh, h, axis) == mesh.pos[h[2]][axis + 1] > mesh.pos[h[1]][axis + 1]

\* Rotate vector properly: vec3(inter.z, inter.x, inter.y), axis_id times
RECURSIVE RotateAxes(_, _)
RotateAxes(inter, times) ==
    IF times = 0 THEN inter
    ELSE RotateAxes(<<inter[3], inter[1], inter[2]>>, times - 1)

\* inter: the point of the edge from pos0 to pos1 in the plane.  The program
\* rounds to the nearest f64; here the two other coordinates are rounded
\* down to a whole unit.
Intersection(axis, slice_coord, range, pos0, pos1) ==
    LET along(j) == pos0[j + 1]
                       + (((pos1[j + 1] - pos0[j + 1]) * (slice_coord - range.min))
                             \div (range.max - range.min))
    IN  RotateAxes(<<slice_coord, along((axis + 1) % 3), along((axis + 2) % 3)>>, axis)

\* Variant of SnapEnds that moves the lower end only
SnapEnds_LowerOnly(mesh, axis, slice_coord, range) ==
    IF Abs(slice_coord - range.min) < Eps
    THEN MoveVertex(mesh, range.halfedge_id[1],
                    [mesh.pos[range.halfedge_id[1]] EXCEPT ![axis + 1] = slice_coord])
    ELSE mesh

\* The mesh with the ends of the half-edge moved into the plane where they
\* are nearer to it than EPSILON ("Detect degenerate cases")
SnapEnds(mesh, axis, slice_coord, range) ==
    LET a == range.halfedge_id[1]
        b == range.halfedge_id[2]
        m0 == IF Abs(slice_coord - range.min) < Eps
              THEN MoveVertex(mesh, a, [mesh.pos[a] EXCEPT ![axis + 1] = slice_coord])
              ELSE mesh
    IN  IF Abs(slice_coord - range.max) < Eps
        THEN MoveVertex(m0, b, [m0.pos[b] EXCEPT ![axis + 1] = slice_coord])
        ELSE m0

\* The half-edges that leave the new vertex upwards, the split one first
SplitResult(mesh, axis, v, split_halfedge_id, order) ==
    LET up == FilterSeq(HalfedgesFrom(mesh, v, order), LAMBDA h : PointsUp(mesh, h, axis))
    IN  [mesh |-> mesh,
         halfedges |-> FilterSeq(up, LAMBDA h : h = split_halfedge_id)
                           \o FilterSeq(up, LAMBDA h : h /= split_halfedge_id)]

\* Variant of SplitSnapped that aborts only where the upper end is in the plane
SplitSnapped_UpperOnly(mesh, axis, slice_coord, range, order) ==
    LET a == range.halfedge_id[1]
        b == range.halfedge_id[2]
    IN  IF mesh.pos[b][axis + 1] = slice_coord
        THEN [mesh |-> mesh, halfedges |-> <<>>]
        ELSE SplitResult(
                 MeshSplitEdge(mesh, a, b,
                     Intersection(axis, slice_coord, range, mesh.pos[a], mesh.pos[b])),
                 axis, Len(mesh.pos) + 1, <<Len(mesh.pos) + 1, b>>, order)

\* split_edge after the degenerate cases have been detected
SplitSnapped(mesh, axis, slice_coord, range, order) ==
    LET a == range.halfedge_id[1]
        b == range.halfedge_id[2]
    IN  IF mesh.pos[a][axis + 1] = slice_coord \/ mesh.pos[b][axis + 1] = slice_coord
        THEN \* Degenerate case; abort
             [mesh |-> mesh,
              halfedges |-> IF mesh.pos[b][axis + 1] /= slice_coord
                            THEN <<range.halfedge_id>> ELSE <<>>]
        ELSE SplitResult(
                 MeshSplitEdge(mesh, a, b,
                     Intersection(axis, slice_coord, range, mesh.pos[a], mesh.pos[b])),
                 axis, Len(mesh.pos) + 1, <<Len(mesh.pos) + 1, b>>, order)

\* Assumes the edge points in the +axis direction. Returns half-edges that
\* may need to be split: [mesh, halfedges]
split_edge(mesh, axis, slice_coord, range, order) ==
    SplitSnapped(SnapEnds(mesh, axis, slice_coord, range), axis, slice_coord, range, order)

----------------------------------------------------------------------------
(* axis_contour as a state machine: one step per slice plane *)

\* Mesh::edge_iter: one half-edge of every edge
EdgeSeq(mesh) ==
    SortedSeqOf({s \in MeshSides(mesh) : s[1] < s[2] \/ <<s[2], s[1]>> \notin MeshSides(mesh)},
                LAMBDA s : (IF s[1] < s[2] THEN s[1] ELSE s[2]) * (Len(mesh.pos) + 1)
                               + (IF s[1] < s[2] THEN s[2] ELSE s[1]))

\* We want the edge to point in the +axis direction
EdgeRangeOf(mesh, axis, h) ==
    IF mesh.pos[h[1]][axis + 1] > mesh.pos[h[2]][axis + 1]
    THEN [min |-> mesh.pos[h[2]][axis + 1], max |-> mesh.pos[h[1]][axis + 1],
          halfedge_id |-> <<h[2], h[1]>>, triangulation |-> FALSE]
    ELSE [min |-> mesh.pos[h[1]][axis + 1], max |-> mesh.pos[h[2]][axis + 1],
          halfedge_id |-> h, triangulation |-> FALSE]

Reversed(s) == [k \in DOMAIN s |-> s[Len(s) + 1 - k]]

\* Variant of InitialRanges without ranges.reverse()
InitialRanges_Ascending(mesh, axis) ==
    StableSort([k \in DOMAIN EdgeSeq(mesh) |-> EdgeRangeOf(mesh, axis, EdgeSeq(mesh)[k])],
               LAMBDA r, q : r.min < q.min)

\* Obtain extreme coordinates of edges: sorted by min, then reversed
InitialRanges(mesh, axis) ==
    Reversed(StableSort([k \in DOMAIN EdgeSeq(mesh) |-> EdgeRangeOf(mesh, axis, EdgeSeq(mesh)[k])],
                        LAMBDA r, q : r.min < q.min))

\* The inner while loop: ranges that begin below the plane are popped, and
\* those of them that reach it are kept: [ranges, edges, tri_edges]
RECURSIVE PopRanges(_, _, _, _)
PopRanges(ranges, slice_coord, edges, tri_edges) ==
    IF ranges = <<>> \/ ~(ranges[Len(ranges)].min - Eps < slice_coord)
    THEN [ranges |-> ranges, edges |-> edges, tri_edges |-> tri_edges]
    ELSE IF ~(ranges[Len(ranges)].max + Eps > slice_coord)
    THEN PopRanges(SubSeq(ranges, 1, Len(ranges) - 1), slice_coord, edges, tri_edges)
    ELSE IF ranges[Len(ranges)].triangulation
    THEN PopRanges(SubSeq(ranges, 1, Len(ranges) - 1), slice_coord, edges,
                   Append(tri_edges, ranges[Len(ranges)]))
    ELSE PopRanges(SubSeq(ranges, 1, Len(ranges) - 1), slice_coord,
                   Append(edges, ranges[Len(ranges)]), tri_edges)

\* The half-edges of the ranges that the inner while loop pops and pushes
\* nowhere: range.max + EPSILON > slice_coord is false
DiscardedAt(ranges, slice_coord) ==
    {ranges[k].halfedge_id :
        k \in {j \in (Len(PopRanges(ranges, slice_coord, <<>>, <<>>).ranges) + 1)..Len(ranges) :
                  ~(ranges[j].max + Eps > slice_coord)}}

\* Edge may still need more splitting: the ranges of the half-edges returned
NewRanges(split, axis, slice_coord) ==
    [i \in DOMAIN split.halfedges |->
        [min |-> slice_coord,
         max |-> split.mesh.pos[split.halfedges[i][2]][axis + 1],
         halfedge_id |-> split.halfedges[i],
         triangulation |-> i /= 1]]

\* One edge split: the mesh and the ranges after it
AfterSplit(split, ranges, axis, slice_coord) ==
    [mesh |-> split.mesh, ranges |-> ranges \o NewRanges(split, axis, slice_coord)]

\* Split the edges: [mesh, ranges]
RECURSIVE SplitEdges(_, _, _, _, _, _)
SplitEdges(state, edges, k, axis, slice_coord, order) ==
    IF k > Len(edges) THEN state
    ELSE SplitEdges(AfterSplit(split_edge(state.mesh, axis, slice_coord, edges[k], order),
                               state.ranges, axis, slice_coord),
                    edges, k + 1, axis, slice_coord, order)

\* Rotate triangulation edges to avoid clutter: [ok, mesh, flips]; not ok is
\* the panic of expect
RECURSIVE FlipEdges(_, _, _)
FlipEdges(mesh, tri_edges, k) ==
    IF k > Len(tri_edges) THEN [ok |-> TRUE, mesh |-> mesh, flips |-> k - 1]
    ELSE IF ~CanFlipEdge(mesh, tri_edges[k].halfedge_id[1], tri_edges[k].halfedge_id[2])
    THEN [ok |-> FALSE, mesh |-> mesh, flips |-> k - 1]
    ELSE FlipEdges(MeshFlipEdge(mesh, tri_edges[k].halfedge_id[1], tri_edges[k].halfedge_id[2]),
                   tri_edges, k + 1)

ContourIdle ==
    /\ ctr_pc = "idle"
    /\ ctr_in = [mesh |-> EmptyMesh, axis |-> 0, spacing |-> 1, min_slice |-> 0, max_slice |-> 0,
                 order |-> "ascending"]
    /\ ctr_mesh = EmptyMesh
    /\ ctr_ranges = <<>>
    /\ ctr_slice = 0
    /\ ctr_flips = 0
    /\ ctr_run = 1
    /\ ctr_begun = EmptyMesh
    /\ ctr_gone = {}

ContourStart(input) ==
    /\ ctr_pc = "call"
    /\ ctr_in = input
    /\ ctr_mesh = input.mesh
    /\ ctr_ranges = <<>>
    /\ ctr_slice = 0
    /\ ctr_flips = 0
    /\ ctr_run = 1
    /\ ctr_begun = input.mesh
    /\ ctr_gone = {}

\* Lines up to the outer loop
ContourEnter ==
    /\ ctr_pc = "call"
    /\ ctr_ranges' = InitialRanges(ctr_mesh, ctr_in.axis)
    /\ ctr_slice' = ctr_in.min_slice + ctr_in.spacing
    /\ ctr_pc' = "loop"
    /\ UNCHANGED <<ctr_in, ctr_mesh, ctr_flips, ctr_run, ctr_begun, ctr_gone>>

\* One round of "while !ranges.is_empty()"
ContourPlane ==
    /\ ctr_pc = "loop"
    /\ ctr_ranges /= <<>>
    /\ \E popped \in {PopRanges(ctr_ranges, ctr_slice, <<>>, <<>>)} :
          \E split \in {SplitEdges([mesh |-> ctr_mesh, ranges |-> popped.ranges],
                                   popped.edges, 1, ctr_in.axis, ctr_slice, ctr_in.order)} :
              \E flipped \in {FlipEdges(split.mesh, popped.tri_edges, 1)} :
                  /\ ctr_mesh' = flipped.mesh
                  /\ ctr_ranges' = split.ranges
                  /\ ctr_pc' = IF flipped.ok THEN "loop" ELSE "panic"
                  /\ ctr_flips' = ctr_flips + flipped.flips
    /\ ctr_gone' = ctr_gone \cup DiscardedAt(ctr_ranges, ctr_slice)
    /\ ctr_slice' = ctr_slice + ctr_in.spacing
    /\ UNCHANGED <<ctr_in, ctr_run, ctr_begun>>

ContourReturn ==
    /\ ctr_pc = "loop"
    /\ ctr_ranges = <<>>
    /\ ctr_pc' = "done"
    /\ UNCHANGED <<ctr_in, ctr_mesh, ctr_ranges, ctr_slice, ctr_flips, ctr_run, ctr_begun,
                   ctr_gone>>

\* axis_contour called once more on the mesh it has contoured, with the same
\* axis, spacing and range
ContourAgain ==
    /\ ctr_pc = "done"
    /\ ctr_run = 1
    /\ ctr_pc' = "call"
    /\ ctr_run' = 2
    /\ ctr_begun' = ctr_mesh
    /\ ctr_gone' = {}
    /\ ctr_ranges' = <<>>
    /\ ctr_slice' = 0
    /\ ctr_flips' = 0
    /\ UNCHANGED <<ctr_in, ctr_mesh>>

----------------------------------------------------------------------------
(* contour_slice as a state machine: one step per face, then the slices are
   collected *)

\* f64 as usize: the fraction is dropped, a negative number gives 0
AsUsize(num, den) == IF num < 0 THEN 0 ELSE num \div den

\* Intermediate::default(): vertex_ids as the vertices in the order of
\* their indexes
EmptyIntermediate == [vertex_ids |-> <<>>, indexes |-> <<>>, tags |-> <<>>]

\* Three times face_center(face_id)[axis_id]
Center3(mesh, f, axis) ==
    mesh.pos[mesh.faces[f][1]][axis + 1] + mesh.pos[mesh.faces[f][2]][axis + 1]
        + mesh.pos[mesh.faces[f][3]][axis + 1]

\* Find slice the face is in: ((center - min) / spacing).floor() as usize
SliceOf(center3, spacing, min) ==
    AsUsize((center3 - 3 * min) \div (3 * spacing), 1)

\* Variant of SliceTakes that also takes the faces centred on the plane
SliceTakes_OnPlane(slice, center3, spacing, min) == 3 * (slice * spacing + min) <= center3

\* slice as f64 * spacing + min < center
SliceTakes(slice, center3, spacing, min) == 3 * (slice * spacing + min) < center3

\* *imm.vertex_ids.entry(vertex).or_insert(len); imm.indexes.push(index)
InsertVertex(imm, vertex) ==
    IF vertex \in Range(imm.vertex_ids)
    THEN [imm EXCEPT !.indexes = Append(@, FirstIndex(imm.vertex_ids, LAMBDA w : w = vertex) - 1)]
    ELSE [imm EXCEPT !.vertex_ids = Append(@, vertex),
                     !.indexes = Append(@, Len(imm.vertex_ids))]

\* Insert face into the slice
InsertFace(imm, face, tag) ==
    [InsertVertex(InsertVertex(InsertVertex(imm, face[1]), face[2]), face[3])
        EXCEPT !.tags = Append(@, tag)]

\* MeshBuilder with_positions, with_indices, with_tags
MeshOfIntermediate(mesh, imm) ==
    [pos |-> [k \in DOMAIN imm.vertex_ids |-> mesh.pos[imm.vertex_ids[k]]],
     faces |-> [f \in 1..(Len(imm.indexes) \div 3) |->
                  <<imm.indexes[3 * f - 2] + 1, imm.indexes[3 * f - 1] + 1, imm.indexes[3 * f] + 1>>],
     tags |-> imm.tags]

\* imms.into_iter().enumerate().filter(..).map(..).collect()
CollectSlices(mesh, imms, spacing, min) ==
    LET kept == SelectByIndex([i \in DOMAIN imms |-> i],
                              {i \in DOMAIN imms : Len(imms[i].vertex_ids) > 0})
    IN  [k \in DOMAIN kept |->
            [coord |-> min + (kept[k] - 1) * spacing,
             mesh |-> MeshOfIntermediate(mesh, imms[kept[k]])]]

SliceIdle ==
    /\ slc_pc = "idle"
    /\ slc_in = [mesh |-> EmptyMesh, axis |-> 0, spacing |-> 1, min_slice |-> 0, max_slice |-> 0]
    /\ slc_imms = <<>>
    /\ slc_face = 0
    /\ slc_out = <<>>

\* axis_slice: contour_slice is called on the contoured mesh with the
\* arguments of axis_contour
SliceCall ==
    /\ ctr_pc = "done"
    /\ slc_pc = "idle"
    /\ slc_in' = [mesh |-> ctr_mesh, axis |-> ctr_in.axis, spacing |-> ctr_in.spacing,
                  min_slice |-> ctr_in.min_slice, max_slice |-> ctr_in.max_slice]
    /\ slc_pc' = "call"
    /\ UNCHANGED <<slc_imms, slc_face, slc_out>>

\* vec![Intermediate::default(); ((max - min) / spacing) as usize]
SliceEnter ==
    /\ slc_pc = "call"
    /\ slc_imms' = [i \in 1..AsUsize(slc_in.max_slice - slc_in.min_slice, slc_in.spacing) |->
                       EmptyIntermediate]
    /\ slc_face' = 1
    /\ slc_pc' = "faces"
    /\ UNCHANGED <<slc_in, slc_out>>

\* One round of "for face_id in self.mesh.face_iter()"; an index past the
\* end of imms is a panic
SlicePlaceFace ==
    /\ slc_pc = "faces"
    /\ slc_face <= Len(slc_in.mesh.faces)
    /\ \E center3 \in {Center3(slc_in.mesh, slc_face, slc_in.axis)} :
          \E slice \in {SliceOf(center3, slc_in.spacing, slc_in.min_slice)} :
              IF ~SliceTakes(slice, center3, slc_in.spacing, slc_in.min_slice)
              THEN slc_pc' = "faces" /\ slc_imms' = slc_imms
              ELSE IF slice + 1 > Len(slc_imms)
              THEN slc_pc' = "panic" /\ slc_imms' = slc_imms
              ELSE /\ slc_pc' = "faces"
                   /\ slc_imms' = [slc_imms EXCEPT ![slice + 1] =
                                      InsertFace(@, slc_in.mesh.faces[slc_face],
                                                 slc_in.mesh.tags[slc_face])]
    /\ slc_face' = slc_face + 1
    /\ UNCHANGED <<slc_in, slc_out>>

SliceCollect ==
    /\ slc_pc = "faces"
    /\ slc_face > Len(slc_in.mesh.faces)
    /\ slc_out' = CollectSlices(slc_in.mesh, slc_imms, slc_in.spacing, slc_in.min_slice)
    /\ slc_pc' = "done"
    /\ UNCHANGED <<slc_in, slc_imms, slc_face>>

----------------------------------------------------------------------------
(* Meshes to contour and to slice *)

\* The distance between two slice planes of axis_contour, in units
ContourSpacing == 4

\* The meshes to contour reach from 0 up to plane MaxSlabs
MaxSlabs == 3

\* The coordinates of the vertices across the axis
Across == << <<0, 0>>, <<12, 0>>, <<0, 12>>, <<12, 12>> >>

\* The point at height h on the axis and at c across it
PointOn(axis, h, c) == RotateAxes(<<h, c[1], c[2]>>, axis)

\* A strip of n triangles on n + 2 vertices at the heights hs, tagged 1, 2, ..
Strip(axis, hs) ==
    [pos |-> [v \in DOMAIN hs |-> PointOn(axis, hs[v], Across[v])],
     faces |-> [f \in 1..(Len(hs) - 2) |->
                  IF f % 2 = 1 THEN <<f, f + 1, f + 2>> ELSE <<f + 1, f, f + 2>>],
     tags |-> [f \in 1..(Len(hs) - 2) |-> f]]

\* A closed mesh of four triangles on four vertices at the heights hs
Tetrahedron(axis, hs) ==
    [pos |-> [v \in DOMAIN hs |-> PointOn(axis, hs[v], Across[v])],
     faces |-> << <<1, 3, 2>>, <<1, 2, 4>>, <<2, 3, 4>>, <<3, 1, 4>> >>,
     tags |-> <<1, 2, 3, 4>>]

\* Heights on the planes, just below them, and Eps above them
ContourHeights ==
    {h \in 0..(MaxSlabs * ContourSpacing) : h % ContourSpacing \in {0, Eps, ContourSpacing - 1}}

\* Heights of the vertices of the meshes of more than one triangle
FewHeights == {0, ContourSpacing - 1, 2 * ContourSpacing + 1, MaxSlabs * ContourSpacing}

\* Single triangles
ContourTriangles(axis) == {Strip(axis, <<a, b, c>>) : a, b, c \in ContourHeights}

\* Two triangles with a common edge
ContourStrips(axis) == {Strip(axis, <<a, b, c, d>>) : a, b, c, d \in FewHeights}

\* Closed meshes of four triangles
ContourTetrahedra(axis) == {Tetrahedron(axis, <<a, b, c, d>>) : a, b, c, d \in FewHeights}

ContourInput(mesh, axis, order) ==
    [mesh |-> mesh, axis |-> axis, spacing |-> ContourSpacing,
     min_slice |-> 0, max_slice |-> MaxSlabs * ContourSpacing, order |-> order]

ContourInputs ==
    {ContourInput(mesh, 0, "ascending") : mesh \in ContourTriangles(0)}
        \cup UNION {{ContourInput(mesh, axis, "ascending") : mesh \in ContourStrips(axis)} :
                        axis \in 0..2}
        \cup {ContourInput(mesh, 2, order) :
                  mesh \in ContourTetrahedra(2), order \in {"ascending", "descending"}}

\* Mesh::extreme_coordinates along the axis: [lo, hi]
ExtremeCoordinates(mesh, axis) ==
    [lo |-> CHOOSE h \in {mesh.pos[v][axis + 1] : v \in DOMAIN mesh.pos} :
                \A w \in DOMAIN mesh.pos : h <= mesh.pos[w][axis + 1],
     hi |-> CHOOSE h \in {mesh.pos[v][axis + 1] : v \in DOMAIN mesh.pos} :
                \A w \in DOMAIN mesh.pos : h >= mesh.pos[w][axis + 1]]

\* (extreme.0[axis] / spacing - EPSILON).floor() * spacing: a whole number of
\* spacings gives the plane before
SliceMin(lo, spacing) == ((lo - 1) \div spacing) * spacing

\* (extreme.1[axis] / spacing + EPSILON).ceil() * spacing: a whole number of
\* spacings gives the plane after
SliceMax(hi, spacing) == ((hi \div spacing) + 1) * spacing

\* The arguments axis_slice gives to axis_contour and contour_slice
AxisSliceInput(mesh, axis, order) ==
    [mesh |-> mesh, axis |-> axis, spacing |-> ContourSpacing,
     min_slice |-> SliceMin(ExtremeCoordinates(mesh, axis).lo, ContourSpacing),
     max_slice |-> SliceMax(ExtremeCoordinates(mesh, axis).hi, ContourSpacing),
     order |-> order]

\* Heights of the single triangles to slice
SliceHeights ==
    {0, Eps, ContourSpacing, 2 * ContourSpacing + 1, MaxSlabs * ContourSpacing}

AxisSliceInputs ==
    {AxisSliceInput(Strip(0, <<a, b, c>>), 0, "ascending") : a, b, c \in SliceHeights}
        \cup UNION {{AxisSliceInput(mesh, axis, "ascending") : mesh \in ContourStrips(axis)} :
                        axis \in 0..2}
        \cup {AxisSliceInput(mesh, 1, "descending") : mesh \in ContourTetrahedra(1)}

----------------------------------------------------------------------------
(* Claims on axis_contour *)

\* The coordinate of vertex v of the contoured mesh along the axis
HeightOf(v) == ctr_mesh.pos[v][ctr_in.axis + 1]

\* The side s of a face has one end more than Eps below the plane and the
\* other more than Eps above it
Straddles(s, plane) ==
    \/ HeightOf(s[1]) < plane - Eps /\ HeightOf(s[2]) > plane + Eps
    \/ HeightOf(s[2]) < plane - Eps /\ HeightOf(s[1]) > plane + Eps

\* The planes min_slice + k * spacing up to the top of the mesh
PlanesOf(input) == {input.min_slice + k * input.spacing : k \in 0..(MaxSlabs + 1)}

\* C1: after axis_contour on a mesh that lies between min_slice and
\* max_slice, no edge of the mesh, be it a piece of an original edge, a
\* triangulation edge or a flipped one, has one end more than epsilon below
\* a plane min_slice + k * spacing and the other more than epsilon above it
C1_NoStraddle ==
    ctr_pc = "done" =>
        \A s \in MeshSides(ctr_mesh) : \A plane \in PlanesOf(ctr_in) : ~Straddles(s, plane)

\* A triangle with one corner on the lowest plane and two corners above
\* the second plane after it has been contoured: its edges were split at
\* two planes and a triangulation edge that crossed a plane was flipped
C1_Witness ==
    /\ ctr_pc = "done"
    /\ Len(ctr_in.mesh.faces) = 1
    /\ Cardinality({v \in DOMAIN ctr_in.mesh.pos :
                       ctr_in.mesh.pos[v][ctr_in.axis + 1] = ctr_in.min_slice}) = 1
    /\ Cardinality({v \in DOMAIN ctr_in.mesh.pos :
                       ctr_in.mesh.pos[v][ctr_in.axis + 1]
                           > ctr_in.min_slice + 2 * ctr_in.spacing + Eps}) = 2
    /\ Len(ctr_mesh.faces) >= 5
    /\ ctr_flips >= 1

----------------------------------------------------------------------------
(* Claims on contour_slice *)

\* Three times the coordinate of the centroid of face f of the sliced mesh
Centroid3(f) ==
    LET face == slc_in.mesh.faces[f]
    IN  slc_in.mesh.pos[face[1]][slc_in.axis + 1] + slc_in.mesh.pos[face[2]][slc_in.axis + 1]
            + slc_in.mesh.pos[face[3]][slc_in.axis + 1]

\* k = floor((c - min) / s)
SlabOf(f) == (Centroid3(f) - 3 * slc_in.min_slice) \div (3 * slc_in.spacing)

\* The lower plane of the slab of face f
LowerPlane(f) == slc_in.min_slice + SlabOf(f) * slc_in.spacing

\* The centroid of face f lies on the lower plane of its slab
OnLowerPlane(f) == 3 * LowerPlane(f) >= Centroid3(f)

\* A face as the positions of its corners and its tag
FaceEntry(mesh, f) ==
    [corners |-> [k \in 1..3 |-> mesh.pos[mesh.faces[f][k]]], tag |-> mesh.tags[f]]

\* The faces of the sliced mesh that belong above plane, in the order of
\* the mesh
FacesAbove(plane) ==
    SelectByIndex([f \in DOMAIN slc_in.mesh.faces |-> FaceEntry(slc_in.mesh, f)],
                  {f \in DOMAIN slc_in.mesh.faces : ~OnLowerPlane(f) /\ LowerPlane(f) = plane})

----------------------------------------------------------------------------
(* Claims about the diamond through the middles of the sides *)

\* The middles of the sides, from the left one counterclockwise
Midpoints == << <<-Half, 0>>, <<0, -Half>>, <<Half, 0>>, <<0, Half>> >>

\* (-0.5,0) -> (0,-0.5) -> (0.5,0) -> (0,0.5) -> (-0.5,0)
DiamondOuter == {<<Midpoints[k], Midpoints[(k % 4) + 1]>> : k \in 1..4}

\* The same diamond wound the other way
DiamondInner == {<<e[2], e[1]>> : e \in DiamondOuter}

\* g is the graph of the cycle of edge positions E, one node per position
IsCycleOf(g, E) ==
    /\ Len(g.nodes) = Cardinality({e[1] : e \in E})
    /\ Len(g.edges) = Cardinality(E)
    /\ NodePosSet(g) = {e[1] : e \in E}
    /\ EdgePosSet(g) = E

\* Each corner joined to the two middles next to it: the halves of the
\* sides, clockwise round the square
CornerJoins ==
    {e \in (Range(Midpoints) \X Range(Corners)) \cup (Range(Corners) \X Range(Midpoints)) :
        OnOneSide(e[1], e[2]) /\ PerpDot(e[1], e[2]) < 0}

\* C11: the diamond wound (-0.5,0) -> (0,-0.5) -> (0.5,0) -> (0,0.5) gets the
\* four corners, each joined to the two middles next to it: 8 nodes and 12
\* edges; the diamond wound the other way is returned unchanged
C11_Diamond ==
    sq_pc = "done" =>
        /\ IsCycleOf(sq_in, DiamondOuter) =>
              /\ Len(sq_out.nodes) = 8
              /\ Len(sq_out.edges) = 12
              /\ NodePosSet(sq_out) = Range(Midpoints) \cup Range(Corners)
              /\ EdgePosSet(sq_out) = DiamondOuter \cup CornerJoins
        /\ IsCycleOf(sq_in, DiamondInner) => sq_out = sq_in

\* The diamond wound (-0.5,0) -> (0,-0.5) -> .. has been given its corners
C11_Witness ==
    /\ sq_pc = "done"
    /\ IsCycleOf(sq_in, DiamondOuter)
    /\ sq_branch = "walk"
    /\ Len(sq_out.edges) = 12

\* C12 as stated: the diamond wound counterclockwise (positive cross
\* product between successive vertices) gets no corner node and no edge
\* along the perimeter
C12_AsStated ==
    (sq_pc = "done" /\ IsCycleOf(sq_in, DiamondOuter) /\ AllEdgesCcw(sq_in)) =>
        /\ NodePosSet(sq_out) \cap Range(Corners) = {}
        /\ ~\E e \in EdgePosSet(sq_out) : OnOneSide(e[1], e[2])

\* C12 amended: the diamond wound clockwise (negative cross product between
\* successive vertices) gets no corner node and no edge along the perimeter
C12_Clockwise ==
    (sq_pc = "done" /\ IsCycleOf(sq_in, DiamondInner) /\ AllEdgesCw(sq_in)) =>
        /\ NodePosSet(sq_out) \cap Range(Corners) = {}
        /\ ~\E e \in EdgePosSet(sq_out) : OnOneSide(e[1], e[2])

\* The clockwise diamond has gone through the outer-hole test
C12_Witness ==
    /\ sq_pc = "done"
    /\ IsCycleOf(sq_in, DiamondInner)
    /\ AllEdgesCw(sq_in)
    /\ sq_branch = "hole"
    /\ sq_ret

\* C13: after the call no two nodes of the graph have the same position,
\* whether edges were added by the walk round the perimeter or a full square
\* by the outer-hole test
C13_DistinctPositions ==
    sq_pc = "done" => Cardinality(NodePosSet(sq_out)) = Len(sq_out.nodes)

----------------------------------------------------------------------------
(* Claims about the context fallback and about meshes inside the cube *)

\* after is before with four new nodes, the four corners, and four new
\* edges that form one cycle through them
IsSquareAdded(before, after) ==
    LET n == Len(before.nodes)
        m == Len(before.edges)
        new == (n + 1)..(n + 4)
        added == {after.edges[k] : k \in (m + 1)..(m + 4)}
        succ(a) == CHOOSE b \in new : <<a, b>> \in added
    IN  /\ Len(after.nodes) = n + 4
        /\ Len(after.edges) = m + 4
        /\ SubSeq(after.nodes, 1, n) = before.nodes
        /\ SubSeq(after.edges, 1, m) = before.edges
        /\ {after.nodes[a] : a \in new} = Range(Corners)
        /\ Cardinality(added) = 4
        /\ \A a \in new : Cardinality({b \in new : <<a, b>> \in added}) = 1
        /\ {n + 1, succ(n + 1), succ(succ(n + 1)), succ(succ(succ(n + 1)))} = new
        /\ succ(succ(succ(succ(n + 1)))) = n + 1

\* The signed volume sum of the mesh as the cube face of this normal sees it
VolumeSeenFrom(normal) == Volume(InSquareFrame(cube_self, normal))

\* The cube faces filled so far for which the kernel could not tell
ContextFaces == {k \in DOMAIN cube_filled : ~cube_filled[k].ret}

\* C14: when the kernel cannot tell, the context fallback adds the full
\* square, four corner nodes and four edges in one cycle through them, if
\* and only if the signed volume sum is strictly negative; with a sum of zero
\* or more the graph stays as it is.
C14_StrictVolume ==
    \A k \in ContextFaces :
        IF VolumeSeenFrom(cube_filled[k].normal) < 0
        THEN IsSquareAdded(cube_filled[k].kernel, cube_filled[k].filled)
        ELSE cube_filled[k].filled = cube_filled[k].kernel

\* The fallback has decided a face on a sum of exactly zero, for a mesh that
\* has faces
C14_Witness ==
    /\ cube_pc = "done"
    /\ \E k \in ContextFaces :
          /\ VolumeSeenFrom(cube_filled[k].normal) = 0
          /\ \E f \in DOMAIN cube_self.faces : VolumeTerm(InSquareFrame(cube_self, cube_filled[k].normal), f) /= 0
          /\ cube_filled[k].filled = EmptyGraph

\* Every vertex of the mesh lies strictly inside the cube at cube_min
IsInsideCube(mesh, cube_min) ==
    /\ Len(mesh.faces) > 0
    /\ \A v \in DOMAIN mesh.pos : \A i \in 1..3 :
          cube_min[i] < mesh.pos[v][i] /\ mesh.pos[v][i] < cube_min[i] + One

\* The triangles that were added for the k-th cube face filled, as sets of
\* corners
FillOf(k) ==
    LET counts == [j \in DOMAIN cube_filled |-> cube_filled[j].count]
        before == Len(cube_in.mesh.faces) + SeqSum(SubSeq(counts, 1, k - 1))
    IN  {Range(cube_triangles[g]) : g \in (before + 1)..(before + counts[k])}

\* The four corners of the cube face of this normal, cube centre at origin
FaceCorners(normal) ==
    {SquareTransform(normal, <<c[1], c[2], 0>>) : c \in Range(Corners)}

\* Two triangles on the four corners of the cube face, meeting in a diagonal
IsFullSquareFill(k) ==
    LET normal == cube_filled[k].normal
    IN  /\ cube_filled[k].count = 2
        /\ Cardinality(FillOf(k)) = 2
        /\ UNION FillOf(k) = FaceCorners(normal)
        /\ \A t \in FillOf(k) : Cardinality(t) = 3
        /\ \E p, q \in FaceCorners(normal) :
              /\ p /= q
              /\ Vec3Add(p, q) = Vec3Scale(normal, One)
              /\ \A t \in FillOf(k) : {p, q} \subseteq t

\* C15 as stated: a mesh fully inside the cube gives each of the six cube
\* faces a full-square fill.
C15_AsStated ==
    (cube_pc = "done" /\ IsInsideCube(cube_in.mesh, cube_in.cube_min)) =>
        /\ Len(cube_filled) = 6
        /\ \A k \in DOMAIN cube_filled : IsFullSquareFill(k)

\* C15: a mesh fully inside the cube whose signed volume sum is negative,
\* seen from every cube face, gives each of the six cube faces a full-square
\* fill.
C15_NegativeVolume ==
    (/\ cube_pc = "done"
     /\ IsInsideCube(cube_in.mesh, cube_in.cube_min)
     /\ \A normal \in Range(Normals) : VolumeSeenFrom(normal) < 0) =>
        /\ Len(cube_filled) = 6
        /\ \A k \in DOMAIN cube_filled : IsFullSquareFill(k)

\* A tetrahedron wound inwards, inside a cube away from the origin, has been
\* cut: no cube face has any boundary, and the result has the twelve
\* triangles of the cube and the four of the tetrahedron
C15_Witness ==
    /\ cube_pc = "done"
    /\ IsInsideCube(cube_in.mesh, cube_in.cube_min)
    /\ cube_in.cube_min /= <<0, 0, 0>>
    /\ cube_boundary = EmptyGraph
    /\ \A normal \in Range(Normals) : VolumeSeenFrom(normal) < 0
    /\ ContextFaces = 1..6
    /\ Len(cube_in.mesh.faces) = 4
    /\ Len(cube_out.faces) = 16

----------------------------------------------------------------------------
(* decimate and dissolve_boundary_vertex.  Meshes are [pos, faces, tags];
   a vertex is in the mesh while a face uses it; a half-edge is the pair
   <<from, to>> of its vertices.  Coordinates are whole numbers, so every
   dot and cross product is exact; the rounding of f64 is not represented. *)

\* 1 / MaterialMesh::EPSILON
EpsInv == 100000

\* Mesh::vertex_iter, in the order of the ids
VertexIds(mesh) ==
    SortedSeqOf({v \in DOMAIN mesh.pos : \E f \in DOMAIN mesh.faces : v \in Range(mesh.faces[f])},
                LAMBDA v : v)

\* Mesh::edge_vector
edge_vector(mesh, h) == Vec3Sub(mesh.pos[h[2]], mesh.pos[h[1]])

\* Mesh::is_edge_on_boundary: no face on one of the two sides
is_edge_on_boundary(mesh, h) ==
    FacesWithSide(mesh, h[1], h[2]) = {} \/ FacesWithSide(mesh, h[2], h[1]) = {}

\* Mesh::is_vertex_on_boundary
is_vertex_on_boundary(mesh, v) ==
    \E s \in MeshSides(mesh) : v \in {s[1], s[2]} /\ is_edge_on_boundary(mesh, s)

\* vertex_halfedge_iter(v).flat_map(|e| walker_from_halfedge(e).face_id()):
\* the faces round v, one for each half-edge from v that has a face
FacesRound(mesh, v, order) ==
    LET from == HalfedgesFrom(mesh, v, order)
        faced == SelectByIndex(from, {k \in DOMAIN from :
                                         FacesWithSide(mesh, from[k][1], from[k][2]) /= {}})
    IN  [k \in DOMAIN faced |->
            CHOOSE f \in FacesWithSide(mesh, faced[k][1], faced[k][2]) : TRUE]

\* The whole root of n between lo and hi
RECURSIVE RootBetween(_, _, _)
RootBetween(n, lo, hi) ==
    IF lo >= hi THEN lo
    ELSE LET mid == (lo + hi + 1) \div 2
         IN  IF mid * mid <= n THEN RootBetween(n, mid, hi) ELSE RootBetween(n, lo, mid - 1)

\* The length of a vector whose length is a whole number
Magnitude(a) == RootBetween(Vec3Dot(a, a), 0, Abs(a[1]) + Abs(a[2]) + Abs(a[3]))

\* (pos.1 - pos.0) x (pos.2 - pos.0) of face f
FaceCross(mesh, f) ==
    Vec3Cross(Vec3Sub(mesh.pos[mesh.faces[f][2]], mesh.pos[mesh.faces[f][1]]),
              Vec3Sub(mesh.pos[mesh.faces[f][3]], mesh.pos[mesh.faces[f][1]]))

\* Mesh::face_normal: the cross product of two sides, normalised.  The
\* faces of the meshes below lie in planes across an axis, for which the
\* normal has whole coordinates.  A face without area has no normal (NaN):
\* IsFlat asks for it separately.
face_normal(mesh, f) ==
    LET c == FaceCross(mesh, f)
    IN  IF Magnitude(c) = 0 THEN c ELSE [k \in 1..3 |-> c[k] \div Magnitude(c)]

\* The faces that have v for a corner
FacesAt3(mesh, v) == {f \in DOMAIN mesh.faces : v \in Range(mesh.faces[f])}

\* Mesh::vertex_normal before it is normalised: the sum of the normals of
\* the faces round the vertex
NormalSum(mesh, v) ==
    LET normals == SelectByIndex([f \in DOMAIN mesh.faces |-> face_normal(mesh, f)],
                                 FacesAt3(mesh, v))
    IN  [k \in 1..3 |-> SeqSum([i \in DOMAIN normals |-> normals[i][k]])]

\* Whole numbers beyond 2^31 - 1, for the products below: the digits to
\* the base BigBase, the least first
BigBase == 100 * 100

Big(n) == <<n % BigBase, (n \div BigBase) % BigBase, n \div (BigBase * BigBase)>>

\* The digits of the product before the carries
BigTerms(x, y) ==
    [k \in 1..(Len(x) + Len(y)) |->
        SeqSum([i \in DOMAIN x |-> IF k + 1 - i \in DOMAIN y THEN x[i] * y[k + 1 - i] ELSE 0])]

RECURSIVE BigCarry(_, _)
BigCarry(terms, carry) ==
    IF terms = <<>> THEN <<>>
    ELSE <<(Head(terms) + carry) % BigBase>>
             \o BigCarry(Tail(terms), (Head(terms) + carry) \div BigBase)

BigMul(x, y) == BigCarry(BigTerms(x, y), 0)

\* x < y, for x and y of the same number of digits
RECURSIVE BigLess(_, _)
BigLess(x, y) ==
    IF x = <<>> THEN FALSE
    ELSE IF x[Len(x)] /= y[Len(y)] THEN x[Len(x)] < y[Len(y)]
    ELSE BigLess(SubSeq(x, 1, Len(x) - 1), SubSeq(y, 1, Len(y) - 1))

\* dot / sqrt(sqr0 * sqr1) > 1.0 - EPSILON, for the dot product of two
\* vectors of squared lengths sqr0 and sqr1: with D = EpsInv it is dot > 0
\* and dot * dot * D * D > (D - 1) * (D - 1) * sqr0 * sqr1.  A vector of
\* length zero gives NaN, and the comparison is false.
ExceedsOneMinusEps(dot, sqr0, sqr1) ==
    /\ dot > 0
    /\ BigLess(BigMul(BigMul(Big(EpsInv - 1), Big(EpsInv - 1)), BigMul(Big(sqr0), Big(sqr1))),
               BigMul(BigMul(Big(EpsInv), Big(EpsInv)), BigMul(Big(dot), Big(dot))))

\* min_dot > 1.0 - Self::EPSILON: the normal of every face round v against
\* the vertex normal; a NaN among them makes the comparison false
IsFlat(mesh, v) ==
    \E sum \in {NormalSum(mesh, v)} :
        \A f \in FacesAt3(mesh, v) :
            \E n \in {face_normal(mesh, f)} :
                /\ n /= <<0, 0, 0>>
                /\ ExceedsOneMinusEps(Vec3Dot(n, sum), Vec3Dot(n, n), Vec3Dot(sum, sum))

\* materials.windows(2).all(|m| m[1] == m[0])
IsUniform(mesh, v, order) ==
    LET round == FacesRound(mesh, v, order)
    IN  \A k \in 1..(Len(round) - 1) : mesh.tags[round[k + 1]] = mesh.tags[round[k]]

\* The half-edges from v that are on the boundary
BoundaryFrom(mesh, v, order) ==
    FilterSeq(HalfedgesFrom(mesh, v, order), LAMBDA e : is_edge_on_boundary(mesh, e))

\* boundary_dirs[0].dot(boundary_dirs[1]) < -1.0 + Self::EPSILON
IsStraight(mesh, v, order) ==
    LET boundary == BoundaryFrom(mesh, v, order)
        d0 == edge_vector(mesh, boundary[1])
        d1 == edge_vector(mesh, boundary[2])
    IN  ExceedsOneMinusEps(-Vec3Dot(d0, d1), Vec3Dot(d0, d0), Vec3Dot(d1, d1))

\* Variant of ShouldDissolve that does not look at the materials
ShouldDissolve_AnyMaterial(mesh, v, order) ==
    /\ is_vertex_on_boundary(mesh, v)
    /\ IsFlat(mesh, v)
    /\ IsStraight(mesh, v, order)

\* The tests of decimate on one vertex that lead to
\* dissolve_boundary_vertex
ShouldDissolve(mesh, v, order) ==
    /\ is_vertex_on_boundary(mesh, v)
    /\ IsUniform(mesh, v, order)
    /\ IsFlat(mesh, v)
    /\ IsStraight(mesh, v, order)

\* flippable_fn: check that dir0 -> dir1 isn't a concave turn
flippable_fn(mesh, e) ==
    IF is_edge_on_boundary(mesh, e) THEN FALSE
    ELSE LET f == CHOOSE x \in FacesWithSide(mesh, e[1], e[2]) : TRUE
             g == CHOOSE x \in FacesWithSide(mesh, e[2], e[1]) : TRUE
             c == ThirdVertex(mesh.faces[f], e[1], e[2])
             d == ThirdVertex(mesh.faces[g], e[1], e[2])
             e_dir == edge_vector(mesh, e)
             dir1 == edge_vector(mesh, <<e[2], c>>)
             dir0 == edge_vector(mesh, <<d, e[2]>>)
         IN  Vec3Dot(Vec3Cross(dir0, dir1), Vec3Cross(dir0, Vec3Scale(e_dir, -1))) > 0

\* Mesh::remove_manifold_vertex: the vertex goes, with the face it has left
remove_manifold_vertex(mesh, v) ==
    LET kept == {f \in DOMAIN mesh.faces : v \notin Range(mesh.faces[f])}
    IN  [mesh EXCEPT !.faces = SelectByIndex(mesh.faces, kept),
                     !.tags = SelectByIndex(mesh.tags, kept)]

\* Check neighboring edges in 1-ring: prev and next of the flipped
\* half-edge are pushed if they are not in the list and can be flipped
PushFlippable(mesh, flippable, edges) ==
    LET one == IF edges[1] \notin Range(flippable) /\ flippable_fn(mesh, edges[1])
               THEN Append(flippable, edges[1]) ELSE flippable
    IN  IF edges[2] \notin Range(one) /\ flippable_fn(mesh, edges[2])
        THEN Append(one, edges[2]) ELSE one

\* Flip edges safely until there's no more non-boundary edges to flip, then
\* dissolve the vertex: [mesh, removed, flips]
RECURSIVE FlipUntilBare(_, _, _, _, _)
FlipUntilBare(mesh, vertex, flippable, inner_count, flips) ==
    IF inner_count = 0
    THEN [mesh |-> remove_manifold_vertex(mesh, vertex), removed |-> TRUE, flips |-> flips]
    ELSE IF flippable = <<>>
    THEN [mesh |-> mesh, removed |-> FALSE, flips |-> flips]
    ELSE LET e == flippable[Len(flippable)]
             rest == SubSeq(flippable, 1, Len(flippable) - 1)
         IN  IF ~CanFlipEdge(mesh, e[1], e[2])
             THEN [mesh |-> mesh, removed |-> FALSE, flips |-> flips]
             ELSE LET c == ThirdVertex(
                               mesh.faces[CHOOSE x \in FacesWithSide(mesh, e[1], e[2]) : TRUE],
                               e[1], e[2])
                      d == ThirdVertex(
                               mesh.faces[CHOOSE x \in FacesWithSide(mesh, e[2], e[1]) : TRUE],
                               e[1], e[2])
                      flipped == MeshFlipEdge(mesh, e[1], e[2])
                  IN  FlipUntilBare(flipped, vertex,
                                    PushFlippable(flipped, rest, << <<vertex, d>>, <<vertex, c>> >>),
                                    inner_count - 1, flips + 1)

\* Variant of dissolve_boundary_vertex that dissolves the vertex with one
\* edge inside the mesh still at it
dissolve_boundary_vertex_OneLeft(mesh, vertex, order) ==
    LET inner == FilterSeq(HalfedgesFrom(mesh, vertex, order),
                           LAMBDA e : ~is_edge_on_boundary(mesh, e))
    IN  FlipUntilBare(mesh, vertex, FilterSeq(inner, LAMBDA e : flippable_fn(mesh, e)),
                      IF Len(inner) > 0 THEN Len(inner) - 1 ELSE 0, 0)

\* Dissolve an unnecessary boundary vertex
dissolve_boundary_vertex(mesh, vertex, order) ==
    LET inner == FilterSeq(HalfedgesFrom(mesh, vertex, order),
                           LAMBDA e : ~is_edge_on_boundary(mesh, e))
    IN  FlipUntilBare(mesh, vertex, FilterSeq(inner, LAMBDA e : flippable_fn(mesh, e)),
                      Len(inner), 0)

\* One turn of the loop of decimate, on vertex_id: [mesh, removed, flips]
DecimateVertexOf(mesh, vertex_id, order) ==
    IF Len(FacesRound(mesh, vertex_id, order)) > 0 /\ ShouldDissolve(mesh, vertex_id, order)
    THEN dissolve_boundary_vertex(mesh, vertex_id, order)
    ELSE [mesh |-> mesh, removed |-> FALSE, flips |-> 0]

----------------------------------------------------------------------------
(* decimate as a state machine: one step for each vertex of vertex_ids;
   after the call of axis_slice has returned, the call may be repeated on
   the mesh it left *)

DecimateIdle ==
    /\ dec_pc = "idle"
    /\ dec_in = [mesh |-> EmptyMesh, order |-> "any"]
    /\ dec_mesh = EmptyMesh
    /\ dec_ids = <<>>
    /\ dec_run = 0
    /\ dec_first = EmptyMesh
    /\ dec_log = <<>>

DecimateStart(input) ==
    /\ dec_pc = "call"
    /\ dec_in = input
    /\ dec_mesh = input.mesh
    /\ dec_ids = <<>>
    /\ dec_run = 1
    /\ dec_first = EmptyMesh
    /\ dec_log = <<>>

\* let vertex_ids = self.mesh.vertex_iter().collect()
DecimateEnter ==
    /\ dec_pc = "call"
    /\ dec_ids' = VertexIds(dec_mesh)
    /\ dec_pc' = "loop"
    /\ UNCHANGED <<dec_in, dec_mesh, dec_run, dec_first, dec_log>>

\* for vertex_id in vertex_ids: one turn
DecimateVertex ==
    /\ dec_pc = "loop"
    /\ dec_ids /= <<>>
    /\ \E turn \in {DecimateVertexOf(dec_mesh, Head(dec_ids), dec_in.order)} :
          /\ dec_mesh' = turn.mesh
          /\ dec_log' = Append(dec_log, [vertex |-> Head(dec_ids), removed |-> turn.removed,
                                         flips |-> turn.flips, run |-> dec_run])
    /\ dec_ids' = Tail(dec_ids)
    /\ UNCHANGED <<dec_pc, dec_in, dec_run, dec_first>>

DecimateReturn ==
    /\ dec_pc = "loop"
    /\ dec_ids = <<>>
    /\ dec_pc' = "done"
    /\ dec_first' = IF dec_run = 1 THEN dec_mesh ELSE dec_first
    /\ UNCHANGED <<dec_in, dec_mesh, dec_ids, dec_run, dec_log>>

\* decimate called once more, on the mesh the first call left
DecimateAgain ==
    /\ dec_pc = "done"
    /\ dec_run = 1
    /\ dec_run' = 2
    /\ dec_pc' = "call"
    /\ UNCHANGED <<dec_in, dec_mesh, dec_ids, dec_first, dec_log>>

----------------------------------------------------------------------------
(* Meshes for decimate: slices as axis_slice hands them over *)

\* The points of the plane z = 0
InPlane(points) == [k \in DOMAIN points |-> <<points[k][1], points[k][2], 0>>]

\* The faces tagged one by one from the sequence tags
Tagged(pos, faces, tags) == [pos |-> pos, faces |-> faces, tags |-> tags]

TagSeqs(n) == [1..n -> 1..MaxTag]

\* test_dissolve_boundary_vertex_simple, lengths doubled
DissolveSimple ==
    [pos |-> InPlane(<< <<0, 0>>, <<2, 0>>, <<4, 0>>, <<3, 2>> >>),
     faces |-> << <<1, 2, 4>>, <<4, 2, 3>> >>]

\* test_dissolve_boundary_vertex_multiple_inner, lengths doubled
DissolveMultipleInner ==
    [pos |-> InPlane(<< <<0, 0>>, <<2, 0>>, <<4, 0>>, <<3, 2>>, <<2, 2>> >>),
     faces |-> << <<1, 2, 5>>, <<5, 2, 4>>, <<4, 2, 3>> >>]

\* test_dissolve_boundary_vertex_concave
DissolveConcave ==
    [pos |-> InPlane(<< <<0, 0>>, <<3, 0>>, <<6, 0>>, <<4, 1>>, <<3, 3>>, <<2, 1>> >>),
     faces |-> << <<1, 2, 6>>, <<6, 2, 5>>, <<5, 2, 4>>, <<4, 2, 3>> >>]

\* A vertex in the middle of a straight boundary with faces in three planes
BentCorner ==
    [pos |-> << <<0, 0, 0>>, <<1, 0, 0>>, <<2, 0, 0>>, <<1, 1, 0>>, <<1, 0, 1>> >>,
     faces |-> << <<2, 3, 4>>, <<2, 4, 5>>, <<2, 5, 1>> >>]

\* A square of four cells, each cut by a diagonal, round a vertex in the
\* middle; up tells which diagonal each cell gets
Grid(up) ==
    LET at(i, j) == 3 * j + i + 1
        cell(c) == LET i == (c - 1) % 2
                       j == (c - 1) \div 2
                   IN  IF up[c]
                       THEN << <<at(i, j), at(i + 1, j), at(i + 1, j + 1)>>,
                               <<at(i, j), at(i + 1, j + 1), at(i, j + 1)>> >>
                       ELSE << <<at(i, j), at(i + 1, j), at(i, j + 1)>>,
                               <<at(i + 1, j), at(i + 1, j + 1), at(i, j + 1)>> >>
    IN  [pos |-> [k \in 1..9 |-> <<2 * ((k - 1) % 3), 2 * ((k - 1) \div 3), 0>>],
         faces |-> cell(1) \o cell(2) \o cell(3) \o cell(4)]

Grids == {Grid(up) : up \in {<<TRUE, TRUE, TRUE, TRUE>>, <<TRUE, FALSE, FALSE, TRUE>>,
                              <<FALSE, TRUE, TRUE, FALSE>>}}

\* A vertex on the side of a larger face that does not have it for a
\* corner (a T-junction): above, the faces of DissolveMultipleInner; below,
\* one face from end to end
TJunction ==
    [pos |-> InPlane(<< <<0, 0>>, <<2, 0>>, <<4, 0>>, <<3, 2>>, <<2, 2>>, <<2, -2>> >>),
     faces |-> << <<1, 2, 5>>, <<5, 2, 4>>, <<4, 2, 3>>, <<1, 6, 3>> >>]

\* A boundary that bends at two vertices next to each other, one way at
\* the first and back at the second; run tells how far the boundary runs
\* for one unit of rise before the first bend.  The second bend is within
\* EPSILON of straight; the first is for run = 224 and is not for 223.
Zigzag(run, swap) ==
    LET first == IF swap THEN 3 ELSE 2
        second == IF swap THEN 2 ELSE 3
        at == [k \in 1..5 |->
                  IF k = 1 THEN <<0, 0>>
                  ELSE IF k = first THEN <<run, 1>>
                  ELSE IF k = second THEN <<run + 1, 1>>
                  ELSE IF k = 4 THEN <<run + 225, 2>>
                  ELSE <<run, 4>>]
    IN  [pos |-> InPlane(at),
         faces |-> << <<1, first, 5>>, <<first, second, 5>>, <<second, 4, 5>> >>]

Zigzags == {Zigzag(run, swap) : run \in {223, 224}, swap \in BOOLEAN}

DecimateShapes ==
    {DissolveSimple, DissolveMultipleInner, DissolveConcave, BentCorner, TJunction}
        \cup Grids \cup Zigzags

DecimateInputs ==
    UNION {{[mesh |-> Tagged(shape.pos, shape.faces, tags), order |-> order] :
               tags \in {t \in TagSeqs(Len(shape.faces)) :
                            Cardinality({k \in DOMAIN t : t[k] /= DefaultTag}) <= 1},
               order \in {"ascending", "descending"}} :
           shape \in DecimateShapes}

----------------------------------------------------------------------------
(* axis_ranges_and_in_out_gradients.  Areas are counted in halves of a
   square unit, so that the projected area of a triangle on whole
   coordinates is a whole number: face_proj_area, proj_area and
   cross_section_area are all twice the f64 of the program. *)

\* Axis::unit_dir
unit_dir(axis) == [k \in 1..3 |-> IF k = axis + 1 THEN 1 ELSE 0]

\* f64::min and f64::max of three
Least3(a, b, c) == IF a <= b /\ a <= c THEN a ELSE IF b <= c THEN b ELSE c

Greatest3(a, b, c) == IF a >= b /\ a >= c THEN a ELSE IF b >= c THEN b ELSE c

\* The FaceRange of face f: its extent along the axis and the area of its
\* projection along the axis, positive where the face looks up the axis
FaceRangeOf(mesh, axis, f) ==
    LET pos0 == mesh.pos[mesh.faces[f][1]]
        pos1 == mesh.pos[mesh.faces[f][2]]
        pos2 == mesh.pos[mesh.faces[f][3]]
    IN  [min |-> Least3(pos0[axis + 1], pos1[axis + 1], pos2[axis + 1]),
         max |-> Greatest3(pos0[axis + 1], pos1[axis + 1], pos2[axis + 1]),
         face_proj_area |-> Vec3Dot(Vec3Cross(Vec3Sub(pos1, pos0), Vec3Sub(pos2, pos0)),
                                    unit_dir(axis))]

\* face_ranges, sorted by min; faces of equal min stay in the order of face_iter
FaceRanges(mesh, axis) ==
    StableSort([f \in DOMAIN mesh.faces |-> FaceRangeOf(mesh, axis, f)],
               LAMBDA r, q : r.min < q.min)

\* One round of "Build the ranges and accumulate projection areas"
SweepFace(ranges, face_range) ==
    IF ranges = <<>> \/ face_range.min > ranges[Len(ranges)].max
    THEN \* New interval necessary
         Append(ranges, [min |-> face_range.min, max |-> face_range.max,
                         proj_area |-> face_range.face_proj_area])
    ELSE \* Expand old interval
         [ranges EXCEPT ![Len(ranges)] =
             [min |-> @.min,
              max |-> IF @.max >= face_range.max THEN @.max ELSE face_range.max,
              proj_area |-> @.proj_area + face_range.face_proj_area]]

\* Variant of Round that takes the halves upwards
Round_HalfUp(num, den) == (2 * num + den) \div (2 * den)

\* f64::round of num / den, den > 0: to the nearest whole number, the
\* halves away from zero
Round(num, den) ==
    IF num >= 0 THEN (2 * num + den) \div (2 * den)
    ELSE -((2 * (-num) + den) \div (2 * den))

\* "as i32" of a whole f64: numbers out of the range of i32 become its ends
AsI32(n) ==
    IF n > 2147483647 THEN 2147483647
    ELSE IF n < -2147483647 - 1 THEN -2147483647 - 1
    ELSE n

\* The tuples returned: (min, max, gradient)
GradientsOf(ranges, cross_section_area) ==
    [k \in DOMAIN ranges |->
        <<ranges[k].min, ranges[k].max, AsI32(Round(ranges[k].proj_area, cross_section_area))>>]

GradientIdle ==
    /\ grd_pc = "idle"
    /\ grd_in = [mesh |-> EmptyMesh, axis |-> 0, cross_section_area |-> 1]
    /\ grd_face_ranges = <<>>
    /\ grd_ranges = <<>>
    /\ grd_out = <<>>

GradientStart(input) ==
    /\ grd_pc = "call"
    /\ grd_in = input
    /\ grd_face_ranges = <<>>
    /\ grd_ranges = <<>>
    /\ grd_out = <<>>

\* Lines up to the loop
GradientEnter ==
    /\ grd_pc = "call"
    /\ grd_face_ranges' = FaceRanges(grd_in.mesh, grd_in.axis)
    /\ grd_ranges' = <<>>
    /\ grd_pc' = "sweep"
    /\ UNCHANGED <<grd_in, grd_out>>

\* One round of "for face_range in face_ranges"
GradientFace ==
    /\ grd_pc = "sweep"
    /\ grd_face_ranges /= <<>>
    /\ grd_ranges' = SweepFace(grd_ranges, Head(grd_face_ranges))
    /\ grd_face_ranges' = Tail(grd_face_ranges)
    /\ UNCHANGED <<grd_pc, grd_in, grd_out>>

GradientReturn ==
    /\ grd_pc = "sweep"
    /\ grd_face_ranges = <<>>
    /\ grd_out' = GradientsOf(grd_ranges, grd_in.cross_section_area)
    /\ grd_pc' = "done"
    /\ UNCHANGED <<grd_in, grd_face_ranges, grd_ranges>>

----------------------------------------------------------------------------
(* Meshes to classify: triangles that do not share vertices, each over the
   same half of a unit square across the axis *)

\* The most faces of a mesh
MaxGradFaces == 3

\* The triangles reach from 0 up to MaxGradHeight along the axis
MaxGradHeight == 2

\* The largest cross_section_area, in halves of a square unit
MaxCrossSection == 3

\* The extents [lo, hi] a triangle can have
GradExtents == {e \in (0..MaxGradHeight) \X (0..MaxGradHeight) : e[1] <= e[2]}

\* A triangle from height e[1] to e[2] that looks up the axis (sign 1) or
\* down it (sign -1)
GradTriangle(axis, e, sign) ==
    IF sign = 1
    THEN <<PointOn(axis, e[1], <<0, 0>>), PointOn(axis, e[2], <<1, 0>>),
           PointOn(axis, e[1], <<0, 1>>)>>
    ELSE <<PointOn(axis, e[1], <<0, 0>>), PointOn(axis, e[1], <<0, 1>>),
           PointOn(axis, e[2], <<1, 0>>)>>

\* The sign of face k: all up, all down, or by turns; one for each axis
GradSigns == <<"up", "down", "turns">>

GradSign(signs, k) ==
    IF signs = "up" THEN 1 ELSE IF signs = "down" THEN -1 ELSE IF k % 2 = 1 THEN 1 ELSE -1

\* The mesh of the triangles of the extents es
GradMesh(axis, es, signs) ==
    [pos |-> [v \in 1..(3 * Len(es)) |->
                GradTriangle(axis, es[(v + 2) \div 3], GradSign(signs, (v + 2) \div 3))
                    [((v - 1) % 3) + 1]],
     faces |-> [f \in DOMAIN es |-> <<3 * f - 2, 3 * f - 1, 3 * f>>],
     tags |-> [f \in DOMAIN es |-> DefaultTag]]

\* The lists of up to MaxGradFaces extents with the lower ends rising or
\* falling (the extents of one lower end in either order)
GradExtentLists ==
    UNION {{es \in [1..n -> GradExtents] :
               \/ \A k \in 1..(n - 1) : es[k][1] <= es[k + 1][1]
               \/ \A k \in 1..(n - 1) : es[k][1] >= es[k + 1][1]} :
           n \in 0..MaxGradFaces}

GradientInputs ==
    {[mesh |-> GradMesh(axis, es, GradSigns[axis + 1]), axis |-> axis,
      cross_section_area |-> area] :
        axis \in 0..2, es \in GradExtentLists, area \in 1..MaxCrossSection}

----------------------------------------------------------------------------
(* Claims about decimate *)

\* v is a vertex of the mesh
IsVertexOf(mesh, v) == v \in DOMAIN mesh.pos /\ FacesAt3(mesh, v) /= {}

\* The faces round v all carry the same material
SameMaterialRound(mesh, v) ==
    \A f, g \in FacesAt3(mesh, v) : mesh.tags[f] = mesh.tags[g]

C17_FixedPoint ==
    (dec_pc = "done" /\ dec_run = 2) => dec_mesh = dec_first

----------------------------------------------------------------------------
(* Claims on a repeated axis_contour *)

\* The planes the loop of axis_contour comes to: min_slice + k * spacing
\* from k = 1 on, past the top of the mesh
SlicePlanes(input) == {input.min_slice + k * input.spacing : k \in 1..(MaxSlabs + 1)}

\* No edge of the mesh has one end below a slice plane and the other above
\* it, and a vertex nearer to a slice plane than EPSILON is exactly on it
IsContoured(mesh, input) ==
    \A plane \in SlicePlanes(input) :
        /\ \A s \in MeshSides(mesh) :
              /\ ~(mesh.pos[s[1]][input.axis + 1] < plane /\ plane < mesh.pos[s[2]][input.axis + 1])
              /\ ~(mesh.pos[s[2]][input.axis + 1] < plane /\ plane < mesh.pos[s[1]][input.axis + 1])
        /\ \A v \in DOMAIN mesh.pos :
              Abs(mesh.pos[v][input.axis + 1] - plane) < Eps =>
                  mesh.pos[v][input.axis + 1] = plane

\* C18: axis_contour on a mesh in which no edge straddles a slice plane and
\* every vertex that is on a plane is exactly on it splits no edge (no
\* vertex and no face is added), flips no edge and leaves every position
\* as it was, at every point of the call
C18_Idempotent ==
    (ctr_pc \in {"loop", "done", "panic"} /\ IsContoured(ctr_begun, ctr_in)) =>
        /\ ctr_mesh.pos = ctr_begun.pos
        /\ ctr_mesh.faces = ctr_begun.faces
        /\ ctr_mesh.tags = ctr_begun.tags
        /\ ctr_flips = 0
        /\ ctr_pc /= "panic"

\* The second call has returned on a mesh that the first call had split
\* and flipped edges of, and in which an edge rises from a plane and
\* another one lies in a plane
C18_Witness ==
    /\ ctr_pc = "done"
    /\ ctr_run = 2
    /\ IsContoured(ctr_begun, ctr_in)
    /\ Len(ctr_begun.pos) > Len(ctr_in.mesh.pos)
    /\ ctr_begun.faces /= ctr_in.mesh.faces
    /\ \E s \in MeshSides(ctr_begun) : \E plane \in SlicePlanes(ctr_in) :
          /\ ctr_begun.pos[s[1]][ctr_in.axis + 1] = plane
          /\ ctr_begun.pos[s[2]][ctr_in.axis + 1] > plane
    /\ \E s \in MeshSides(ctr_begun) : \E plane \in SlicePlanes(ctr_in) :
          /\ ctr_begun.pos[s[1]][ctr_in.axis + 1] = plane
          /\ ctr_begun.pos[s[2]][ctr_in.axis + 1] = plane

----------------------------------------------------------------------------
(* Claims about axis_ranges_and_in_out_gradients *)

\* The coordinates of the corners of face f of the mesh handed in, along
\* the axis
CornerHeights(f) ==
    {grd_in.mesh.pos[grd_in.mesh.faces[f][k]][grd_in.axis + 1] : k \in 1..3}

\* The axis extent of face f
ExtentMin(f) == CHOOSE h \in CornerHeights(f) : \A g \in CornerHeights(f) : h <= g

ExtentMax(f) == CHOOSE h \in CornerHeights(f) : \A g \in CornerHeights(f) : h >= g

\* ((p1 - p0) x (p2 - p0)) . axis of face f: twice its signed projected
\* area, written out for the axis
ProjectedArea2(f) ==
    LET p0 == grd_in.mesh.pos[grd_in.mesh.faces[f][1]]
        p1 == grd_in.mesh.pos[grd_in.mesh.faces[f][2]]
        p2 == grd_in.mesh.pos[grd_in.mesh.faces[f][3]]
        u == ((grd_in.axis + 1) % 3) + 1
        v == ((grd_in.axis + 2) % 3) + 1
    IN  (p1[u] - p0[u]) * (p2[v] - p0[v]) - (p1[v] - p0[v]) * (p2[u] - p0[u])

\* The faces whose extent lies in the interval
FacesWithin(interval) ==
    {f \in DOMAIN grd_in.mesh.faces :
        interval[1] <= ExtentMin(f) /\ ExtentMax(f) <= interval[2]}

\* The sum of ProjectedArea2 over the faces of the set that are not above k
RECURSIVE ProjectedSum2(_, _)
ProjectedSum2(faces, k) ==
    IF k = 0 THEN 0
    ELSE (IF k \in faces THEN ProjectedArea2(k) ELSE 0) + ProjectedSum2(faces, k - 1)

\* g is num / den rounded to the nearest whole number, a half going away
\* from zero (den > 0)
IsRounded(g, num, den) ==
    \/ 2 * Abs(num - g * den) < den
    \/ 2 * Abs(num - g * den) = den /\ Abs(g * den) > Abs(num)

\* C19: the intervals returned are in ascending order and apart (the min of
\* each is above the max of the one before), the extent of every face lies
\* in exactly one of them, a face whose min is the max of another face of
\* an interval lies in that interval too, and the gradient of an interval
\* is the sum of the signed projected areas of the faces within it,
\* divided by cross_section_area and rounded
C19_Intervals ==
    grd_pc = "done" =>
        /\ \A k \in 1..(Len(grd_out) - 1) : grd_out[k][2] < grd_out[k + 1][1]
        /\ \A k \in DOMAIN grd_out : grd_out[k][1] <= grd_out[k][2]
        /\ \A f \in DOMAIN grd_in.mesh.faces :
              Cardinality({k \in DOMAIN grd_out : f \in FacesWithin(grd_out[k])}) = 1
        /\ \A k \in DOMAIN grd_out : \A f \in FacesWithin(grd_out[k]) :
              \A g \in DOMAIN grd_in.mesh.faces :
                  ExtentMin(g) = ExtentMax(f) => g \in FacesWithin(grd_out[k])
        /\ \A k \in DOMAIN grd_out :
              IsRounded(grd_out[k][3],
                        ProjectedSum2(FacesWithin(grd_out[k]), Len(grd_in.mesh.faces)),
                        grd_in.cross_section_area)

\* A mesh whose faces are not in the order of their mins has been swept
\* into two intervals or more; one interval holds a face that begins where
\* another one ends and reaches higher, and the area of one interval is
\* half the cross section, below zero
C19_Witness ==
    /\ grd_pc = "done"
    /\ Len(grd_out) >= 2
    /\ \E f, g \in DOMAIN grd_in.mesh.faces : f < g /\ ExtentMin(f) > ExtentMin(g)
    /\ \E k \in DOMAIN grd_out : \E f, g \in FacesWithin(grd_out[k]) :
          ExtentMin(g) = ExtentMax(f) /\ ExtentMax(g) > ExtentMax(f)
    /\ \E k \in DOMAIN grd_out :
          /\ 2 * ProjectedSum2(FacesWithin(grd_out[k]), Len(grd_in.mesh.faces))
                 = -grd_in.cross_section_area
          /\ grd_out[k][3] = -1

\* C20: every gradient returned is -1, 0 or 1
C20_Gradients ==
    grd_pc = "done" => \A k \in DOMAIN grd_out : grd_out[k][3] \in {-1, 0, 1}

----------------------------------------------------------------------------
(* Boundary graphs with nodes of equal position, edges between them and
   slits, as the faces of a mesh that is flat against a cube face give them *)

\* At most this many edges in such a graph
MaxMergeEdges == 3

\* The positions of the nodes: the centre, the middle of the right side and
\* the corner above it
MergePositions == {<<0, 0>>, <<Half, 0>>, <<Half, Half>>}

\* The lists of one to three nodes
MergeNodeLists == UNION {[1..n -> MergePositions] : n \in 1..3}

\* The lists of at most MaxMergeEdges different edges among n nodes, each
\* between two different nodes, in ascending or in descending order
MergeEdgeLists(n) ==
    UNION {{SortedSeqOf(E, LAMBDA e : e[1] * (n + 1) + e[2]),
            SortedSeqOf(E, LAMBDA e : -(e[1] * (n + 1) + e[2]))} :
           E \in SubsetsUpTo({e \in (1..n) \X (1..n) : e[1] /= e[2]}, MaxMergeEdges)}

MergeInputs ==
    UNION {{[nodes |-> nodes, edges |-> edges] : edges \in MergeEdgeLists(Len(nodes))} :
           nodes \in MergeNodeLists}

MergeStart ==
    /\ sq_pc = "ready"
    /\ sq_in \in MergeInputs
    /\ sq_out = EmptyGraph
    /\ sq_ret = FALSE
    /\ sq_branch = "idle"
    /\ sq_steps = NoSteps

----------------------------------------------------------------------------
(* Boundary graphs on the points of test_boundary_square_intersect_degree_3
   and the centre of the square *)

\* At most this many edges in such a graph
MaxWalkEdges == 4

\* The points of that test: the middle of the left side, the two corners
\* on the right and the middle of the right side
CornerPositions == {<<-Half, 0>>, <<Half, -Half>>, <<Half, 0>>, <<Half, Half>>}

\* The middles of the left and the right side, a corner, and the centre
CentrePositions == {<<-Half, 0>>, <<Half, 0>>, <<Half, Half>>, <<0, 0>>}

\* The graphs of up to MaxWalkEdges edges between the positions of P
GraphsAmong(P) ==
    {GraphOfPairs(E, {}) :
        E \in SubsetsUpTo({e \in P \X P : e[1] /= e[2]}, MaxWalkEdges)}

\* One edge between two nodes of one position
EqualEndInputs ==
    {[nodes |-> <<p, p>>, edges |-> <<<<1, 2>>>>] : p \in CornerPositions \cup CentrePositions}

WalkInputs ==
    GraphsAmong(CornerPositions) \cup GraphsAmong(CentrePositions) \cup EqualEndInputs

WalkStart ==
    /\ sq_pc = "ready"
    /\ sq_in \in WalkInputs
    /\ sq_out = EmptyGraph
    /\ sq_ret = FALSE
    /\ sq_branch = "idle"
    /\ sq_steps = NoSteps

----------------------------------------------------------------------------
(* Claims about the first steps of the cube-face kernel *)

\* C21: after the slit-removal step, for every two nodes u, v that had both
\* the edge u -> v and the edge v -> u after the merge, neither edge is left
C21_SlitsRemoved ==
    sq_pc = "done" =>
        \A u, v \in DOMAIN sq_steps.merged.nodes :
            (HasEdge(sq_steps.merged, u, v) /\ HasEdge(sq_steps.merged, v, u)) =>
                ~HasEdge(sq_steps.slitless, u, v) /\ ~HasEdge(sq_steps.slitless, v, u)

\* The edges of the graph as pairs of positions
PosEdges(g) == {<<g.nodes[e[1]], g.nodes[e[2]]>> : e \in Range(g.edges)}

\* indegree - outdegree of the node at position p, 0 where there is none
SurplusAt(g, p) ==
    Cardinality({k \in DOMAIN g.edges : g.nodes[g.edges[k][2]] = p})
        - Cardinality({k \in DOMAIN g.edges : g.nodes[g.edges[k][1]] = p})

\* The corners and the perimeter nodes that have an edge, in walking order
\* (from the corner (-0.5, -0.5) up the left side and on clockwise)
WalkPoints(g) ==
    SortedSeqOf(Range(Corners)
                    \cup {p \in {g.nodes[e[k]] : e \in Range(g.edges), k \in 1..2} :
                             OnPerimeter(p)},
                PerimKey)

\* A graph as the merge returns it: no two nodes at one position, no
\* self-loop, no two edges from the same node to the same node
IsMergedGraph(g) ==
    /\ \A m, n \in DOMAIN g.nodes : g.nodes[m] = g.nodes[n] => m = n
    /\ \A k \in DOMAIN g.edges : g.edges[k][1] /= g.edges[k][2]
    /\ \A j, k \in DOMAIN g.edges : g.edges[j] = g.edges[k] => j = k

\* The perimeter points of odd degree, in walking order
OddPoints(g) ==
    LET pts == WalkPoints(g)
    IN  SelectByIndex(pts, {i \in DOMAIN pts : SurplusAt(g, pts[i]) /= 0})

\* What C22 asks of the graph
IsWalkable(g) ==
    /\ IsMergedGraph(g)
    /\ \A e \in PosEdges(g) : ~OnSquareSide(e[1], e[2])
    /\ \A p \in Range(g.nodes) : ~OnPerimeter(p) => SurplusAt(g, p) = 0
    /\ \A p \in Range(g.nodes) : OnPerimeter(p) => SurplusAt(g, p) \in {-1, 0, 1}
    /\ \E p \in Range(g.nodes) : OnPerimeter(p) /\ SurplusAt(g, p) > 0
    /\ \A k \in DOMAIN OddPoints(g) :
          SurplusAt(g, OddPoints(g)[k])
              /= SurplusAt(g, OddPoints(g)[(k % Len(OddPoints(g))) + 1])

\* The nearest point of odd degree at or before point i, walking back, has
\* more edges in than out
IsInArc(g, i) ==
    LET pts == WalkPoints(g)
        back(d) == pts[((i - 1 - d + Len(pts)) % Len(pts)) + 1]
        d == CHOOSE x \in 0..(Len(pts) - 1) :
                 /\ SurplusAt(g, back(x)) /= 0
                 /\ \A y \in 0..(x - 1) : SurplusAt(g, back(y)) = 0
    IN  SurplusAt(g, back(d)) > 0

\* The steps from a point to the next one on the arcs to be drawn
ArcSteps(g) ==
    LET pts == WalkPoints(g)
    IN  {<<pts[i], pts[(i % Len(pts)) + 1]>> : i \in {j \in DOMAIN pts : IsInArc(g, j)}}

\* C22: on a merged graph with no edge along the perimeter, every inner
\* node balanced, every perimeter node with at most one edge more in than
\* out or out than in, some perimeter node with more in than out, and the
\* perimeter nodes of odd degree by turns of the one and of the other kind,
\* the kernel keeps every edge, adds exactly one edge for every step
\* between consecutive perimeter points on the arcs from a node with more
\* edges in to the next node with more edges out (degrees as in the
\* input), adds nothing else, and leaves every node balanced
C22_WalkArcs ==
    (sq_pc = "done" /\ IsWalkable(sq_in)) =>
        /\ PosEdges(sq_in) \subseteq PosEdges(sq_out)
        /\ PosEdges(sq_out) \ PosEdges(sq_in) = ArcSteps(sq_in)
        /\ Len(sq_out.edges) = Len(sq_in.edges) + Cardinality(ArcSteps(sq_in))
        /\ \A p \in Range(sq_out.nodes) : SurplusAt(sq_out, p) = 0

\* No two edges of the graph are opposite to one another
HasNoSlit(g) == \A e \in PosEdges(g) : <<e[2], e[1]>> \notin PosEdges(g)

\* C22 for graphs without a slit: on a merged graph as in C22 in which no
\* two edges are opposite to one another, the kernel keeps every edge, adds
\* exactly one edge for every step between consecutive perimeter points on
\* the arcs from a node with more edges in to the next node with more
\* edges out, adds nothing else, and leaves every node balanced
C22_NoSlitWalkArcs ==
    (sq_pc = "done" /\ IsWalkable(sq_in) /\ HasNoSlit(sq_in)) =>
        /\ PosEdges(sq_in) \subseteq PosEdges(sq_out)
        /\ PosEdges(sq_out) \ PosEdges(sq_in) = ArcSteps(sq_in)
        /\ Len(sq_out.edges) = Len(sq_in.edges) + Cardinality(ArcSteps(sq_in))
        /\ \A p \in Range(sq_out.nodes) : SurplusAt(sq_out, p) = 0

\* The walk has been made on a graph without a slit that has four
\* perimeter nodes of odd degree, one of them with three edges; two arcs
\* of three steps or more were drawn and a corner was added as a node
C22_Witness ==
    /\ sq_pc = "done"
    /\ sq_branch = "walk"
    /\ IsWalkable(sq_in)
    /\ HasNoSlit(sq_in)
    /\ Len(OddPoints(sq_in)) = 4
    /\ \E n \in DOMAIN sq_in.nodes :
          OnPerimeter(sq_in.nodes[n]) /\ degree(sq_in, n) = 3
    /\ Len(sq_out.nodes) > Len(sq_in.nodes)
    /\ Cardinality(ArcSteps(sq_in)) >= 3

----------------------------------------------------------------------------
(* Claims about the answer of the cube-face kernel *)

\* Step 6: counterclockwise edges were stripped, no clockwise ones, and no
\* edge is left
OutsideFired(steps) ==
    steps.ignored_ccw /\ ~steps.ignored_cw /\ Len(steps.stripped.edges) = 0

\* A start index was found and the perimeter was walked from it
WalkPerformed(steps) == ~OutsideFired(steps) /\ steps.index /= 0

\* No start index, and edges are left: the search for the outer hole
HoleDetectionRan(steps) ==
    ~OutsideFired(steps) /\ steps.index = 0 /\ Len(steps.stripped.edges) > 0

\* after has no node and no edge that before has not
NothingAdded(before, after) ==
    /\ Range(after.nodes) \subseteq Range(before.nodes)
    /\ PosEdges(after) \subseteq PosEdges(before)
    /\ Len(after.nodes) <= Len(before.nodes)
    /\ Len(after.edges) <= Len(before.edges)

\* after is before with the points as new nodes and one new edge from each
\* of them
IsPerimeterAdded(before, points, after) ==
    /\ after.nodes = before.nodes \o points
    /\ Len(after.edges) = Len(before.edges) + Len(points)
    /\ SubSeq(after.edges, 1, Len(before.edges)) = before.edges
    /\ {after.edges[k][1] : k \in (Len(before.edges) + 1)..Len(after.edges)}
           = (Len(before.nodes) + 1)..Len(after.nodes)

\* C23: intersect_center_unit_square_on_graph returns true if and only if the
\* perimeter was walked, or step 6 fired, or the search for the outer hole
\* ran; it returns false only with no edge left after merging and stripping
\* and no start index, and then it has added no node and no edge (on the
\* empty graph: false, and the graph stays empty); intersect_center_unit_square
\* runs the context fallback exactly when false was returned.
C23_Answer ==
    /\ sq_pc = "done" =>
          /\ sq_ret <=> (\/ WalkPerformed(sq_steps)
                         \/ OutsideFired(sq_steps)
                         \/ HoleDetectionRan(sq_steps))
          /\ WalkPerformed(sq_steps) => Len(sq_out.edges) > Len(sq_steps.stripped.edges)
          /\ OutsideFired(sq_steps) => sq_out = sq_steps.stripped
          /\ HoleDetectionRan(sq_steps) =>
                \/ sq_out = sq_steps.stripped
                \/ IsPerimeterAdded(sq_steps.stripped, sq_steps.points, sq_out)
          /\ ~sq_ret =>
                /\ Len(sq_steps.stripped.edges) = 0
                /\ sq_steps.index = 0
                /\ sq_out = sq_steps.stripped
                /\ NothingAdded(sq_in, sq_out)
          /\ sq_in = EmptyGraph => ~sq_ret /\ sq_out = EmptyGraph
    /\ \A k \in DOMAIN cube_filled :
          IF cube_filled[k].ret
          THEN cube_filled[k].filled = cube_filled[k].kernel
          ELSE IF VolumeSeenFrom(cube_filled[k].normal) < 0
               THEN IsSquareAdded(cube_filled[k].kernel, cube_filled[k].filled)
               ELSE cube_filled[k].filled = cube_filled[k].kernel

\* The kernel has answered false on a graph that has edges, all of them
\* stripped
C23_Witness ==
    /\ sq_pc = "done"
    /\ ~sq_ret
    /\ Len(sq_in.edges) > 0
    /\ sq_out /= sq_in

----------------------------------------------------------------------------
(* Claims about combine_equal_vertices *)

\* The ordered pairs of positions of the edges whose two positions differ
DifferingPosEdges(g) == {e \in PosEdges(g) : e[1] /= e[2]}

\* C24: combine_equal_vertices returns a graph with exactly one node per
\* distinct position of the input; its edges are exactly the distinct ordered
\* pairs of positions of the input edges whose two positions differ, one edge
\* for each: self-loops made by the merge are dropped, several input edges
\* between the same ordered pair of positions collapse to one, an opposite
\* pair is kept as two edges; a graph whose node positions are all distinct is
\* returned unchanged.
C24_Combined ==
    sq_pc = "done" =>
        /\ Range(sq_steps.merged.nodes) = Range(sq_in.nodes)
        /\ Len(sq_steps.merged.nodes) = Cardinality(Range(sq_in.nodes))
        /\ PosEdges(sq_steps.merged) = DifferingPosEdges(sq_in)
        /\ Len(sq_steps.merged.edges) = Cardinality(DifferingPosEdges(sq_in))
        /\ \A k \in DOMAIN sq_steps.merged.edges :
              sq_steps.merged.edges[k][1] /= sq_steps.merged.edges[k][2]
        /\ Cardinality(Range(sq_in.nodes)) = Len(sq_in.nodes) => sq_steps.merged = sq_in

\* As in test_combine_equal_vertices_one and _edge_collapse at once: two nodes
\* of one position with an edge between them, two input edges that collapse
\* to one, and an opposite pair that is kept
C24_Witness ==
    /\ sq_pc = "done"
    /\ Len(sq_in.nodes) = 3
    /\ Len(sq_in.edges) = 3
    /\ Len(sq_steps.merged.nodes) = 2
    /\ Len(sq_steps.merged.edges) = 2
    /\ \E k \in DOMAIN sq_in.edges :
          sq_in.nodes[sq_in.edges[k][1]] = sq_in.nodes[sq_in.edges[k][2]]
    /\ \E e \in Range(sq_steps.merged.edges) : <<e[2], e[1]>> \in Range(sq_steps.merged.edges)

----------------------------------------------------------------------------
(* Claims about dissolve_boundary_vertex *)

\* The vertices of the mesh
VerticesOf(mesh) == {v \in DOMAIN mesh.pos : IsVertexOf(mesh, v)}

\* The edges at v that are not on the boundary, each by its other end
InnerEdgesAt(mesh, v) ==
    {w \in DOMAIN mesh.pos :
        FacesWithSide(mesh, v, w) /= {} /\ FacesWithSide(mesh, w, v) /= {}}

\* The turn of the loop of decimate on the vertex at the head of dec_ids
\* calls dissolve_boundary_vertex
DissolveCalled ==
    /\ dec_pc = "loop"
    /\ dec_ids /= <<>>
    /\ IsVertexOf(dec_mesh, Head(dec_ids))
    /\ ShouldDissolve(dec_mesh, Head(dec_ids), dec_in.order)

\* C25: dissolve_boundary_vertex(v), v with k edges that are not on the
\* boundary, flips at most k edges; it removes v if and only if k flips were
\* done, and then the mesh has one vertex and one face fewer and v is gone;
\* if the list of flips runs empty or a flip is refused before that, it
\* returns without error, v is still in the mesh and the number of vertices
\* is as before; decimate goes on with the vertices that remain.
C25_Dissolve ==
    [][(DissolveCalled /\ Len(dec_log') = Len(dec_log) + 1) =>
          LET v == Head(dec_ids)
              k == Cardinality(InnerEdgesAt(dec_mesh, v))
              turn == dec_log'[Len(dec_log')]
          IN  /\ turn.vertex = v
              /\ turn.flips <= k
              /\ turn.removed <=> turn.flips = k
              /\ turn.removed =>
                    /\ VerticesOf(dec_mesh') = VerticesOf(dec_mesh) \ {v}
                    /\ Len(dec_mesh'.faces) = Len(dec_mesh.faces) - 1
              /\ ~turn.removed =>
                    /\ v \in VerticesOf(dec_mesh')
                    /\ VerticesOf(dec_mesh') = VerticesOf(dec_mesh)
                    /\ Len(dec_mesh'.faces) = Len(dec_mesh.faces)
              /\ dec_pc' = "loop"
              /\ dec_ids' = Tail(dec_ids)]_vars

\* decimate has returned after a call of dissolve_boundary_vertex that gave
\* up with flips done and the vertex left, and a turn after it
C25_Witness ==
    /\ dec_pc = "done"
    /\ \E i \in DOMAIN dec_log :
          /\ ~dec_log[i].removed
          /\ dec_log[i].flips > 0
          /\ dec_log[i].vertex \in VerticesOf(dec_mesh)
          /\ i < Len(dec_log)

----------------------------------------------------------------------------
(* Claims about the ends of an edge that are near a slice plane *)

\* The ranges of the queue that the step at ctr_slice takes as edges to slice
SlicedNow ==
    {k \in DOMAIN ctr_ranges :
        /\ ~ctr_ranges[k].triangulation
        /\ ctr_ranges[k].min - Eps < ctr_slice
        /\ ctr_ranges[k].max + Eps > ctr_slice}

\* Vertex v is nearer to the plane of this step than EPSILON
NearPlane(v) == Abs(ctr_slice - ctr_mesh.pos[v][ctr_in.axis + 1]) < Eps

\* The ranges of SlicedNow with an end near the plane
SnappedNow ==
    {k \in SlicedNow :
        NearPlane(ctr_ranges[k].halfedge_id[1]) \/ NearPlane(ctr_ranges[k].halfedge_id[2])}

\* After the step vertex v is exactly on its plane
OnPlaneAfter(v) == ctr_mesh'.pos[v][ctr_in.axis + 1] = ctr_slice

\* After the step the queue holds a range of half-edge h that begins at the
\* plane of the step and ends at the upper end of h
IsRequeued(h) ==
    \E j \in DOMAIN ctr_ranges' :
        /\ ctr_ranges'[j].halfedge_id = h
        /\ ctr_ranges'[j].min = ctr_slice
        /\ ctr_ranges'[j].max = ctr_mesh'.pos[h[2]][ctr_in.axis + 1]

\* After the step no range of the queue is on half-edge h
IsDropped(h) == \A j \in DOMAIN ctr_ranges' : ctr_ranges'[j].halfedge_id /= h

\* The face of the mesh has three corners that are not on one line
HasArea(mesh, f) ==
    Vec3Cross(Vec3Sub(mesh.pos[mesh.faces[f][2]], mesh.pos[mesh.faces[f][1]]),
              Vec3Sub(mesh.pos[mesh.faces[f][3]], mesh.pos[mesh.faces[f][1]])) /= <<0, 0, 0>>

\* The ends of a sliced edge that are near the plane are moved exactly onto
\* it, across the axis they stay; the edge is not split and keeps its
\* length, and the faces at it keep an area
SnapsWithoutSplit(k) ==
    LET h == ctr_ranges[k].halfedge_id
    IN  /\ \A v \in {h[1], h[2]} :
              NearPlane(v) =>
                  ctr_mesh'.pos[v] = [ctr_mesh.pos[v] EXCEPT ![ctr_in.axis + 1] = ctr_slice]
        /\ h \in MeshSides(ctr_mesh') \/ <<h[2], h[1]>> \in MeshSides(ctr_mesh')
        /\ ctr_mesh'.pos[h[1]] /= ctr_mesh'.pos[h[2]]
        /\ \A f \in DOMAIN ctr_mesh'.faces :
              {h[1], h[2]} \subseteq Range(ctr_mesh'.faces[f]) => HasArea(ctr_mesh', f)

\* A step of the sweep
IsSweepStep == ctr_pc = "loop" /\ ctr_ranges /= <<>> /\ ctr_slice' = ctr_slice + ctr_in.spacing

\* C26 as stated: in a sweep step an end of a sliced edge that is within
\* epsilon of slice_coord is moved exactly onto the plane, only its axis
\* coordinate changes, the edge is not split and no zero-length edge or
\* degenerate triangle is made; the range is dropped only if both ends then
\* lie on the plane, in every other case it is re-enqueued with min =
\* slice_coord.
C26_AsStated ==
    [][IsSweepStep =>
          \A k \in SnappedNow :
              /\ SnapsWithoutSplit(k)
              /\ IF OnPlaneAfter(ctr_ranges[k].halfedge_id[1])
                        /\ OnPlaneAfter(ctr_ranges[k].halfedge_id[2])
                 THEN IsDropped(ctr_ranges[k].halfedge_id)
                 ELSE IsRequeued(ctr_ranges[k].halfedge_id)]_vars

\* C26: as above, but the range is dropped if and only if the upper end of
\* the edge then lies on the plane; in every other case it is re-enqueued
\* with min = slice_coord.
C26_UpperEnd ==
    [][IsSweepStep =>
          \A k \in SnappedNow :
              /\ SnapsWithoutSplit(k)
              /\ IF OnPlaneAfter(ctr_ranges[k].halfedge_id[2])
                 THEN IsDropped(ctr_ranges[k].halfedge_id)
                 ELSE IsRequeued(ctr_ranges[k].halfedge_id)]_vars

\* A step has moved a vertex of the mesh onto its plane and has re-enqueued
\* an edge that goes up from it
C26_Witness ==
    /\ ctr_pc = "loop"
    /\ ctr_run = 1
    /\ \E j \in DOMAIN ctr_ranges :
          LET v == ctr_ranges[j].halfedge_id[1]
          IN  /\ v \in DOMAIN ctr_begun.pos
              /\ ctr_begun.pos[v] /= ctr_mesh.pos[v]
              /\ ctr_mesh.pos[v][ctr_in.axis + 1] = ctr_slice - ctr_in.spacing
              /\ ctr_ranges[j].min = ctr_slice - ctr_in.spacing
              /\ ~ctr_ranges[j].triangulation

----------------------------------------------------------------------------
(* Claims about the queue of axis_contour *)

\* The queue is sorted by descending min: its last element has the smallest
IsDescending(ranges) ==
    \A i, j \in DOMAIN ranges : i < j => ranges[i].min >= ranges[j].min

\* The ranges of the queue that the step at ctr_slice pops and discards
DiscardedNow ==
    {k \in DOMAIN ctr_ranges :
        /\ ctr_ranges[k].min - Eps < ctr_slice
        /\ ctr_ranges[k].max + Eps <= ctr_slice}

\* The ranges of the queue that the step at ctr_slice does not pop
StayingNow == {k \in DOMAIN ctr_ranges : ~(ctr_ranges[k].min - Eps < ctr_slice)}

\* C27: with a spacing above 0 the sweep of axis_contour terminates, the
\* queue becomes empty; at the start of every sweep step the queue is sorted
\* by descending min; every range re-enqueued in a step has min = slice_coord;
\* a range with max + epsilon <= slice_coord is discarded when it is popped
\* and is never in the queue again.
C27_Sweep ==
    /\ <>(ctr_pc = "done" /\ ctr_ranges = <<>>)
    /\ [](ctr_pc = "loop" => IsDescending(ctr_ranges))
    /\ [][IsSweepStep =>
             /\ \A j \in DOMAIN ctr_ranges' :
                   \/ j \in StayingNow /\ ctr_ranges'[j] = ctr_ranges[j]
                   \/ j > Cardinality(StayingNow) /\ ctr_ranges'[j].min = ctr_slice
             /\ \A k \in DiscardedNow :
                   /\ ctr_ranges[k].halfedge_id \in ctr_gone'
                   /\ IsDropped(ctr_ranges[k].halfedge_id)]_vars
    /\ [](\A j \in DOMAIN ctr_ranges : ctr_ranges[j].halfedge_id \notin ctr_gone)

\* The sweep has ended after it discarded ranges at a plane, split an edge
\* there and went on to a later plane
C27_Witness ==
    /\ ctr_pc = "done"
    /\ ctr_ranges = <<>>
    /\ ctr_gone /= {}
    /\ Len(ctr_mesh.pos) > Len(ctr_begun.pos)
    /\ ctr_slice > ctr_in.min_slice + 3 * ctr_in.spacing

----------------------------------------------------------------------------
(* Claims about the mesh data manifold_from_triangle_soup emits *)

\* C28: the output of manifold_from_triangle_soup is well formed for a soup
\* of n triangles: corners are joined only where their positions are
\* identical, so every output vertex has one position; the index array has
\* length 3n and keeps the order of the triangles and of their corners; its
\* values are exactly 0 .. m-1, m the number of vertices emitted.
C28_WellFormed ==
    /\ soup_pc \in {"link", "done"} =>
          \A i, j \in DOMAIN soup_sets :
              soup_sets[i] = soup_sets[j] => soup_pos[i] = soup_pos[j]
    /\ soup_pc = "done" =>
          /\ Len(soup_built.indexes) = 3 * Len(soup_tris)
          /\ \A t \in DOMAIN soup_tris : \A c \in 1..3 :
                /\ soup_built.indexes[3 * (t - 1) + c] + 1 \in DOMAIN soup_built.points
                /\ soup_built.points[soup_built.indexes[3 * (t - 1) + c] + 1] = soup_tris[t][c]
          /\ Range(soup_built.indexes) = 0..(Len(soup_built.points) - 1)
          /\ \A a, b \in DOMAIN soup_built.indexes :
                soup_built.indexes[a] = soup_built.indexes[b] <=> soup_sets[a - 1] = soup_sets[b - 1]

\* A soup of three triangles or more has been built into fewer vertices than
\* corners, and the least representative is not the index of its corners
C28_Witness ==
    /\ soup_pc = "done"
    /\ Len(soup_tris) >= 3
    /\ Len(soup_built.points) < Len(soup_built.indexes)
    /\ Len(soup_built.points) > 3
    /\ \E c \in DOMAIN soup_built.indexes : soup_built.indexes[c] /= soup_sets[c - 1]
    /\ soup_built.indexes[1] /= 0

----------------------------------------------------------------------------
(* Claims about the order in which the edges of a soup are linked *)

\* The sets of corners that linking the edges in one fixed order gives
LinkedInOrder ==
    LinkAll(soup_pos, EdgeKeys(soup_pos), UnionFindNew(3 * Len(soup_tris)))

\* C29: the result of manifold_from_triangle_soup does not depend on which
\* key is taken from the edge map at each round, nor on the direction in
\* which an edge is first met: every run on a soup ends with the same
\* partition of its corners into vertices, also where forward and inverse
\* half-edges round an edge do not alternate.
C29_AnyOrder ==
    soup_pc = "done" => soup_sets = LinkedInOrder

----------------------------------------------------------------------------
(* Claims about the boundary graph of a mesh *)

\* The half-edges of mesh that have a face and whose twin has none
OneFacedSides(mesh) ==
    {s \in MeshSides(mesh) : <<s[2], s[1]>> \notin MeshSides(mesh)}

\* The vertices that are an end of an edge with one face
BoundaryEnds(mesh) ==
    {v \in DOMAIN mesh.pos : \E s \in OneFacedSides(mesh) : v \in {s[1], s[2]}}

\* The vertices of mesh that no edge with one face ends in
InteriorVertices(mesh) ==
    {v \in DOMAIN mesh.pos : \E s \in MeshSides(mesh) : v = s[1]} \ BoundaryEnds(mesh)

\* C30: the boundary graph of a manifold mesh has one node for every vertex
\* that is an end of a boundary edge, with that vertex's position, and one
\* directed edge for every boundary edge, directed as the half-edge of the
\* one face at it; interior vertices are no nodes, a closed mesh gives the
\* empty graph, and every node has as many edges in as out.
C30_BoundaryGraph ==
    (cube_pc = "faces" /\ cube_filled = <<>>) =>
        LET ends == BoundaryEnds(cube_self)
            sides == OneFacedSides(cube_self)
            node(v) == Cardinality({w \in ends : w <= v})
            edges == cube_boundary.edges
        IN  /\ IsManifoldMesh(cube_self)
            /\ Len(cube_boundary.nodes) = Cardinality(ends)
            /\ \A v \in ends : cube_boundary.nodes[node(v)] = cube_self.pos[v]
            /\ Len(edges) = Cardinality(sides)
            /\ {edges[k] : k \in DOMAIN edges} = {<<node(s[1]), node(s[2])>> : s \in sides}
            /\ \A v \in InteriorVertices(cube_self) :
                  \A n \in DOMAIN cube_boundary.nodes : cube_boundary.nodes[n] /= cube_self.pos[v]
            /\ sides = {} => cube_boundary = EmptyGraph
            /\ \A n \in DOMAIN cube_boundary.nodes :
                  Cardinality({k \in DOMAIN edges : edges[k][1] = n})
                      = Cardinality({k \in DOMAIN edges : edges[k][2] = n})

\* The graph of a mesh with an interior vertex and four boundary edges
C30_Witness ==
    /\ cube_pc = "faces"
    /\ cube_filled = <<>>
    /\ InteriorVertices(cube_self) /= {}
    /\ Len(cube_boundary.nodes) = 4
    /\ Len(cube_boundary.edges) = 4
    /\ Len(cube_self.faces) = 4

----------------------------------------------------------------------------
(* Specifications: one per part of the program, the other parts idle *)

InitSquare == SquareStart /\ SoupIdle /\ CubeIdle /\ ContourIdle /\ SliceIdle
                  /\ DecimateIdle /\ GradientIdle

NextSquare == SqIntersectOnGraph /\ UNCHANGED <<soupVars, cubeVars, contourVars, sliceVars, decimateVars, gradientVars>>

SpecSquare == InitSquare /\ [][NextSquare]_vars

InitMerge == MergeStart /\ SoupIdle /\ CubeIdle /\ ContourIdle /\ SliceIdle
                 /\ DecimateIdle /\ GradientIdle

SpecMerge == InitMerge /\ [][NextSquare]_vars

InitWalk == WalkStart /\ SoupIdle /\ CubeIdle /\ ContourIdle /\ SliceIdle
                /\ DecimateIdle /\ GradientIdle

SpecWalk == InitWalk /\ [][NextSquare]_vars

InitFan ==
    /\ SquareIdle
    /\ CubeIdle
    /\ ContourIdle
    /\ SliceIdle
    /\ DecimateIdle
    /\ GradientIdle
    /\ \E triangles \in FanSoups : SoupStart(triangles, NoSource, "any")

NextSoup ==
    \/ SoupLinkEdge /\ UNCHANGED <<squareVars, cubeVars, contourVars, sliceVars, decimateVars, gradientVars>>
    \/ SoupBuild /\ UNCHANGED <<squareVars, cubeVars, contourVars, sliceVars, decimateVars, gradientVars>>

SpecFan == InitFan /\ [][NextSoup]_vars

InitSurface ==
    /\ SquareIdle
    /\ CubeIdle
    /\ ContourIdle
    /\ SliceIdle
    /\ DecimateIdle
    /\ GradientIdle
    /\ \E input \in SurfaceInputs : SoupStart(input.triangles, input.src, input.order)

SpecSurface == InitSurface /\ [][NextSoup]_vars

InitCube ==
    /\ SquareIdle
    /\ SoupIdle
    /\ ContourIdle
    /\ SliceIdle
    /\ DecimateIdle
    /\ GradientIdle
    /\ \E input \in CubeInputs : CubeStart(input.mesh, input.cube_min, input.order)

NextCube ==
    \/ CubeEnter /\ UNCHANGED <<squareVars, soupVars, contourVars, sliceVars, decimateVars, gradientVars>>
    \/ CubeFillFace /\ UNCHANGED <<squareVars, soupVars, contourVars, sliceVars, decimateVars, gradientVars>>
    \/ CubeAssemble /\ UNCHANGED <<squareVars, contourVars, sliceVars, decimateVars, gradientVars>>
    \/ SoupLinkEdge /\ UNCHANGED <<squareVars, cubeVars, contourVars, sliceVars, decimateVars, gradientVars>>
    \/ SoupBuild /\ UNCHANGED <<squareVars, cubeVars, contourVars, sliceVars, decimateVars, gradientVars>>
    \/ CubeReturn /\ UNCHANGED <<squareVars, soupVars, contourVars, sliceVars, decimateVars, gradientVars>>

SpecCube == InitCube /\ [][NextCube]_vars
NextFace == NextSquare \/ NextCube
SpecFace == (InitWalk \/ InitCube) /\ [][NextFace]_vars

InitContour ==
    /\ SquareIdle
    /\ SoupIdle
    /\ CubeIdle
    /\ SliceIdle
    /\ DecimateIdle
    /\ GradientIdle
    /\ \E input \in ContourInputs : ContourStart(input)

NextContour ==
    \/ ContourEnter /\ UNCHANGED <<squareVars, soupVars, cubeVars, sliceVars, decimateVars, gradientVars>>
    \/ ContourPlane /\ UNCHANGED <<squareVars, soupVars, cubeVars, sliceVars, decimateVars, gradientVars>>
    \/ ContourReturn /\ UNCHANGED <<squareVars, soupVars, cubeVars, sliceVars, decimateVars, gradientVars>>

SpecContour == InitContour /\ [][NextContour]_vars
\* A step of the call, told by where it stands and by slice_coord alone: every
\* step of NextContour is one, and one is possible until the call has returned
ContourAdvances ==
    \/ /\ ctr_pc = "call"
       /\ ctr_pc' = "loop"
       /\ ctr_slice' = ctr_in.min_slice + ctr_in.spacing
    \/ /\ ctr_pc = "loop"
       /\ ctr_ranges /= <<>>
       /\ ctr_pc' \in {"loop", "panic"}
       /\ ctr_slice' = ctr_slice + ctr_in.spacing
    \/ /\ ctr_pc = "loop"
       /\ ctr_ranges = <<>>
       /\ ctr_pc' = "done"
       /\ ctr_slice' = ctr_slice
\* The call runs to completion on the calling thread
SpecContourRuns ==
    InitContour /\ [][NextContour]_vars /\ WF_<<ctr_pc, ctr_slice>>(ContourAdvances)

NextContourAgain ==
    \/ NextContour
    \/ ContourAgain /\ UNCHANGED <<squareVars, soupVars, cubeVars, sliceVars, decimateVars, gradientVars>>

SpecContourAgain == InitContour /\ [][NextContourAgain]_vars

InitAxisSlice ==
    /\ SquareIdle
    /\ SoupIdle
    /\ CubeIdle
    /\ SliceIdle
    /\ DecimateIdle
    /\ GradientIdle
    /\ \E input \in AxisSliceInputs : ContourStart(input)

NextAxisSlice ==
    \/ ContourEnter /\ UNCHANGED <<squareVars, soupVars, cubeVars, sliceVars, decimateVars, gradientVars>>
    \/ ContourPlane /\ UNCHANGED <<squareVars, soupVars, cubeVars, sliceVars, decimateVars, gradientVars>>
    \/ ContourReturn /\ UNCHANGED <<squareVars, soupVars, cubeVars, sliceVars, decimateVars, gradientVars>>
    \/ SliceCall /\ UNCHANGED <<squareVars, soupVars, cubeVars, contourVars, decimateVars, gradientVars>>
    \/ SliceEnter /\ UNCHANGED <<squareVars, soupVars, cubeVars, contourVars, decimateVars, gradientVars>>
    \/ SlicePlaceFace /\ UNCHANGED <<squareVars, soupVars, cubeVars, contourVars, decimateVars, gradientVars>>
    \/ SliceCollect /\ UNCHANGED <<squareVars, soupVars, cubeVars, contourVars, decimateVars, gradientVars>>

SpecAxisSlice == InitAxisSlice /\ [][NextAxisSlice]_vars

InitDecimate ==
    /\ SquareIdle
    /\ SoupIdle
    /\ CubeIdle
    /\ ContourIdle
    /\ SliceIdle
    /\ GradientIdle
    /\ \E input \in DecimateInputs : DecimateStart(input)

NextDecimate ==
    \/ DecimateEnter /\ UNCHANGED <<squareVars, soupVars, cubeVars, contourVars, sliceVars, gradientVars>>
    \/ DecimateVertex /\ UNCHANGED <<squareVars, soupVars, cubeVars, contourVars, sliceVars, gradientVars>>
    \/ DecimateReturn /\ UNCHANGED <<squareVars, soupVars, cubeVars, contourVars, sliceVars, gradientVars>>
    \/ DecimateAgain /\ UNCHANGED <<squareVars, soupVars, cubeVars, contourVars, sliceVars, gradientVars>>

SpecDecimate == InitDecimate /\ [][NextDecimate]_vars

InitGradient ==
    /\ SquareIdle
    /\ SoupIdle
    /\ CubeIdle
    /\ ContourIdle
    /\ SliceIdle
    /\ DecimateIdle
    /\ \E input \in GradientInputs : GradientStart(input)

NextGradient ==
    \/ GradientEnter /\ UNCHANGED <<squareVars, soupVars, cubeVars, contourVars, sliceVars, decimateVars>>
    \/ GradientFace /\ UNCHANGED <<squareVars, soupVars, cubeVars, contourVars, sliceVars, decimateVars>>
    \/ GradientReturn /\ UNCHANGED <<squareVars, soupVars, cubeVars, contourVars, sliceVars, decimateVars>>

SpecGradient == InitGradient /\ [][NextGradient]_vars

====
